---- MODULE Spec2Model ----
(***************************************************************************)
(* Model of the collision-geometry core of VPhysicsBullet                  *)
(* (physics_collision.cpp / physics_collision.h) and of the environment    *)
(* that owns the objects and steps the simulation                          *)
(* (physics_environment.cpp).                                              *)
(*                                                                         *)
(* Numbers.  Lengths are integers counted in units of HL2BULLET(0.05),     *)
(* half the box-cache threshold, and the box corners handed to the cache   *)
(* are even, so that half-extents and origins stay integers.  Volumes are  *)
(* counted in sixths of a cubic unit, the unit of the hull's "sixVolume".  *)
(* Quotients are kept exact as a numerator over a positive denominator.    *)
(***************************************************************************)
EXTENDS Integers, Sequences, FiniteSets, TLC

VARIABLES
    convexes,       \* heap of CPhysConvex objects, in allocation order
    compounds,      \* heap of CPhysCollide_Compound objects, in allocation order
    m_BBoxCache,    \* CPhysicsCollision::m_BBoxCache, compound ids
    last,           \* the call made last: its arguments, its result, the state before
    m_ObjectReferenceList,      \* CPhysCollide::m_ObjectReferenceList of compound 1
    m_CollideObjectNext,        \* CPhysicsObject::m_CollideObjectNext of every body
    m_CollideObjectPrevious,    \* CPhysicsObject::m_CollideObjectPrevious of every body
    initialList,    \* the value m_ObjectReferenceList had when compound 1 was constructed
    attached,       \* the bodies that hold a reference to compound 1
    notified,       \* the NotifyMassCenterChanged calls made by the call made last
    crashed,        \* the process dereferenced a pointer that points nowhere
    ledgetree,      \* the ledge tree that the VCollide buffers hold
    collide,        \* per byte order of the buffer: the compound decoded from it
    env,            \* the fields of the CPhysicsEnvironment
    physicsObjects, \* the CPhysicsObject of every object id: its fields and its fate
    callbacks,      \* the events fired by the step made last, and what they add up to
    simulate        \* where the environment is in Simulate, and Simulate's locals

collideVars == <<convexes, compounds, m_BBoxCache>>

listVars == <<m_ObjectReferenceList, m_CollideObjectNext, m_CollideObjectPrevious,
              initialList, attached, notified, crashed>>

decodeVars == <<ledgetree, collide>>

envVars == <<env, physicsObjects, callbacks, simulate>>

vars == <<convexes, compounds, m_BBoxCache, last,
          m_ObjectReferenceList, m_CollideObjectNext, m_CollideObjectPrevious,
          initialList, attached, notified, crashed, ledgetree, collide,
          env, physicsObjects, callbacks, simulate>>

nullptr == 0

Axis == 1..3

(***************************************************************************)
(* btVector3 arithmetic                                                    *)
(***************************************************************************)
Abs(x) == IF x < 0 THEN -x ELSE x

Min2(a, b) == IF a < b THEN a ELSE b

Max2(a, b) == IF a < b THEN b ELSE a

VAdd(a, b) == [c \in Axis |-> a[c] + b[c]]

VSub(a, b) == [c \in Axis |-> a[c] - b[c]]

VScale(k, a) == [c \in Axis |-> k * a[c]]

VAbsolute(a) == [c \in Axis |-> Abs(a[c])]

VZero == [c \in Axis |-> 0]

(***************************************************************************)
(* Exact quotients.  A btVector3 whose components need not be integers is  *)
(* [n |-> numerators, d |-> denominator], reduced to lowest terms with     *)
(* d > 0.  d = 0 stands for the result of a floating-point division by     *)
(* zero (an infinity or a NaN): it is not a finite vector.                 *)
(***************************************************************************)
RECURSIVE GCD(_, _)
GCD(a, b) == IF b = 0 THEN a ELSE GCD(b, a % b)

RVec(n, d) ==
    IF d = 0 THEN [n |-> VZero, d |-> 0]
    ELSE LET s == IF d < 0 THEN -1 ELSE 1
             g == GCD(GCD(GCD(Abs(n[1]), Abs(n[2])), Abs(n[3])), Abs(d))
         IN  [n |-> [c \in Axis |-> (s * n[c]) \div g], d |-> (s * d) \div g]

RV(v) == [n |-> v, d |-> 1]

RVFinite(a) == a.d # 0

RVAdd(a, b) ==
    IF a.d = 0 \/ b.d = 0 THEN RVec(VZero, 0)
    ELSE LET g == GCD(a.d, b.d)
         IN  RVec(VAdd(VScale(b.d \div g, a.n), VScale(a.d \div g, b.n)),
                  (a.d \div g) * b.d)

RVSub(a, b) == RVAdd(a, [n |-> VScale(-1, b.n), d |-> b.d])

RVMul(a, b) == RVec([c \in Axis |-> a.n[c] * b.n[c]], a.d * b.d)

RVScale(k, a) ==
    IF a.d = 0 THEN RVec(VZero, 0)
    ELSE LET g == GCD(Abs(k), a.d)
         IN  RVec(VScale(k \div g, a.n), a.d \div g)

RVDiv(a, k) ==
    IF a.d = 0 \/ k = 0 THEN RVec(VZero, 0)
    ELSE LET g == GCD(GCD(GCD(Abs(a.n[1]), Abs(a.n[2])), Abs(a.n[3])), Abs(k))
         IN  IF g = 0 THEN RVec(VZero, 1)
             ELSE RVec([c \in Axis |-> a.n[c] \div g], a.d * (k \div g))

RVAbsolute(a) == [n |-> VAbsolute(a.n), d |-> a.d]

\* btVector3(s, s, s) for s = a.length2()
RVLength2(a) ==
    LET s == a.n[1] * a.n[1] + a.n[2] * a.n[2] + a.n[3] * a.n[3]
    IN  RVec([c \in Axis |-> s], a.d * a.d)

(***************************************************************************)
(* Utility for convexes and collideables                                   *)
(***************************************************************************)
\* CPhysicsCollision::BoxInertia
BoxInertia(extents) ==
    LET l2 == RVMul(extents, extents)
    IN  RVec(<<l2.n[2] + l2.n[3], l2.n[1] + l2.n[3], l2.n[1] + l2.n[2]>>, 12 * l2.d)

\* OffsetInertia without the squares of the origin's components taken off
OffsetInertiaWholeLength(inertia, origin, absolute) ==
    IF absolute THEN RVAbsolute(RVAdd(inertia, RVLength2(origin)))
    ELSE RVAdd(inertia, RVLength2(origin))

\* CPhysicsCollision::OffsetInertia
OffsetInertia(inertia, origin, absolute) ==
    LET newInertia == RVSub(RVAdd(inertia, RVLength2(origin)), RVMul(origin, origin))
    IN  IF absolute THEN RVAbsolute(newInertia) ELSE newInertia

(***************************************************************************)
(* Convexes.  A CPhysConvex is a record; the fields a variant does not     *)
(* have are left empty.                                                    *)
(***************************************************************************)
OWNER_GAME == "OWNER_GAME"

OWNER_COMPOUND == "OWNER_COMPOUND"

OWNER_INTERNAL == "OWNER_INTERNAL"

\* VPHYSICS_CONVEX_DISTANCE_MARGIN = HL2BULLET(0.25f)
VPHYSICS_CONVEX_DISTANCE_MARGIN == 5

\* the value of a function that returns no convex (nullptr)
NoConvex ==
    [type |-> "nullptr", m_Owner |-> OWNER_GAME, userIndex |-> 0, deleted |-> FALSE,
     halfExtents |-> VZero, m_Origin |-> VZero,
     points |-> <<>>, m_TriangleIndices |-> <<>>, m_TriangleMaterials |-> <<>>,
     m_TrianglePlanes |-> <<>>,
     m_Volume |-> 0, m_MassCenter |-> RV(VZero), m_Inertia |-> RV(VZero)]

\* CPhysConvex_Box::CPhysConvex_Box; CPhysConvex::CPhysConvex sets OWNER_GAME
CPhysConvex_Box(halfExtents, origin) ==
    [type |-> "box", m_Owner |-> OWNER_GAME, userIndex |-> 0, deleted |-> FALSE,
     halfExtents |-> halfExtents, m_Origin |-> origin,
     points |-> <<>>, m_TriangleIndices |-> <<>>, m_TriangleMaterials |-> <<>>,
     m_TrianglePlanes |-> <<>>,
     m_Volume |-> 0, m_MassCenter |-> RV(VZero), m_Inertia |-> RV(VZero)]

\* CPhysConvex_Box::GetVolume, in sixths of a cubic unit
Box_GetVolume(box) == 6 * 8 * box.halfExtents[1] * box.halfExtents[2] * box.halfExtents[3]

\* CPhysConvex_Box::GetInertia
Box_GetInertia(box) == BoxInertia(RV(VScale(2, box.halfExtents)))

\* btBoxShape::getAabb under the identity transform
Box_getAabb(box) ==
    LET e == [c \in Axis |-> box.halfExtents[c] + VPHYSICS_CONVEX_DISTANCE_MARGIN]
    IN  [min |-> VScale(-1, e), max |-> e]

(***************************************************************************)
(* Convex hulls.  points is the btConvexHullShape's point array,           *)
(* m_TriangleIndices holds 0-based indices into it, three per triangle.    *)
(* m_Volume = -1 is the "not calculated yet" value set by Initialize.      *)
(***************************************************************************)
Cross(a, b) ==
    <<a[2] * b[3] - a[3] * b[2], a[3] * b[1] - a[1] * b[3], a[1] * b[2] - a[2] * b[1]>>

Dot(a, b) == a[1] * b[1] + a[2] * b[2] + a[3] * b[3]

\* btVector3::triple
Triple(a, b, c) == Dot(a, Cross(b, c))

\* points[indices[indexIndex]], indexIndex counted from 0 as in the source
HullPoint(hull, indexIndex) == hull.points[hull.m_TriangleIndices[indexIndex + 1] + 1]

\* CPhysConvex_Hull::CPhysConvex_Hull(points, pointCount, indices, triangleCount)
CPhysConvex_Hull(points, indices) ==
    [type |-> "hull", m_Owner |-> OWNER_GAME, userIndex |-> 0, deleted |-> FALSE,
     halfExtents |-> VZero, m_Origin |-> VZero,
     points |-> points, m_TriangleIndices |-> indices, m_TriangleMaterials |-> <<>>,
     m_TrianglePlanes |-> <<>>,
     m_Volume |-> -1, m_MassCenter |-> RV(VZero), m_Inertia |-> RV(VZero)]

\* btConvexHullShape::getAabb under the identity transform
Hull_getAabb(hull) ==
    LET n == Len(hull.points)
        lo == [c \in Axis |-> CHOOSE v \in {hull.points[i][c] : i \in 1..n} :
                                  \A i \in 1..n : v <= hull.points[i][c]]
        hi == [c \in Axis |-> CHOOSE v \in {hull.points[i][c] : i \in 1..n} :
                                  \A i \in 1..n : v >= hull.points[i][c]]
    IN  [min |-> [c \in Axis |-> lo[c] - VPHYSICS_CONVEX_DISTANCE_MARGIN],
         max |-> [c \in Axis |-> hi[c] + VPHYSICS_CONVEX_DISTANCE_MARGIN]]

\* the first loop of CalculateVolumeProperties: Sum of tetrahedronSixVolume
RECURSIVE SixVolumeLoop(_, _)
SixVolumeLoop(hull, indexIndex) ==
    IF indexIndex >= Len(hull.m_TriangleIndices) THEN 0
    ELSE LET ref == HullPoint(hull, 0)
             p0 == HullPoint(hull, indexIndex)
             p1 == HullPoint(hull, indexIndex + 1)
             p2 == HullPoint(hull, indexIndex + 2)
         IN  Abs(Triple(VSub(p0, ref), VSub(p1, ref), VSub(p2, ref)))
             + SixVolumeLoop(hull, indexIndex + 3)

\* the first loop of CalculateVolumeProperties: four times massCenterSum
RECURSIVE MassCenterSumLoop(_, _)
MassCenterSumLoop(hull, indexIndex) ==
    IF indexIndex >= Len(hull.m_TriangleIndices) THEN VZero
    ELSE LET ref == HullPoint(hull, 0)
             p0 == HullPoint(hull, indexIndex)
             p1 == HullPoint(hull, indexIndex + 1)
             p2 == HullPoint(hull, indexIndex + 2)
             tetrahedronSixVolume == Abs(Triple(VSub(p0, ref), VSub(p1, ref), VSub(p2, ref)))
         IN  VAdd(VScale(tetrahedronSixVolume, VAdd(VAdd(p0, p1), VAdd(p2, ref))),
                  MassCenterSumLoop(hull, indexIndex + 3))

\* the second loop without the mixed products a * b + a * c + b * c
RECURSIVE InertiaLoopSquaresOnly(_, _, _)
InertiaLoopSquaresOnly(hull, mc, indexIndex) ==
    IF indexIndex >= Len(hull.m_TriangleIndices) THEN VZero
    ELSE LET a == VSub(VScale(mc.d, HullPoint(hull, indexIndex)), mc.n)
             b == VSub(VScale(mc.d, HullPoint(hull, indexIndex + 1)), mc.n)
             c == VSub(VScale(mc.d, HullPoint(hull, indexIndex + 2)), mc.n)
             t == Abs(Triple(a, b, c))
             i == [k \in Axis |-> t * (a[k] * a[k] + b[k] * b[k] + c[k] * c[k])]
         IN  VAdd(<<i[2] + i[3], i[3] + i[1], i[1] + i[2]>>,
                  InertiaLoopSquaresOnly(hull, mc, indexIndex + 3))

\* the second loop of CalculateVolumeProperties.  a, b, c are the numerators of
\* the triangle's corners minus m_MassCenter over the denominator mc.d; the
\* result is the numerator of the m_Inertia sum over 60 * mc.d^5.
RECURSIVE InertiaLoop(_, _, _)
InertiaLoop(hull, mc, indexIndex) ==
    IF indexIndex >= Len(hull.m_TriangleIndices) THEN VZero
    ELSE LET a == VSub(VScale(mc.d, HullPoint(hull, indexIndex)), mc.n)
             b == VSub(VScale(mc.d, HullPoint(hull, indexIndex + 1)), mc.n)
             c == VSub(VScale(mc.d, HullPoint(hull, indexIndex + 2)), mc.n)
             t == Abs(Triple(a, b, c))
             i == [k \in Axis |-> t * (a[k] * a[k] + b[k] * b[k] + c[k] * c[k]
                                       + a[k] * b[k] + a[k] * c[k] + b[k] * c[k])]
         IN  VAdd(<<i[2] + i[3], i[3] + i[1], i[1] + i[2]>>,
                  InertiaLoop(hull, mc, indexIndex + 3))

\* the branch m_Volume > 0 of CalculateVolumeProperties, m_MassCenter given
VolumePropertiesOfSolid(hull, sixVolume, massCenter) ==
    [hull EXCEPT
        !.m_Volume = sixVolume,
        !.m_MassCenter = massCenter,
        !.m_Inertia = RVAbsolute(RVec(
            InertiaLoop(hull, massCenter, 0),
            10 * massCenter.d * massCenter.d * massCenter.d * massCenter.d * massCenter.d
               * sixVolume))]

\* the else branch of CalculateVolumeProperties: the box approximation from the
\* hull's AABB
VolumePropertiesOfBox(hull, sixVolume, aabb) ==
    [hull EXCEPT
        !.m_Volume = sixVolume,
        !.m_MassCenter = RVec(VAdd(aabb.min, aabb.max), 2),
        !.m_Inertia = OffsetInertia(BoxInertia(RV(VSub(aabb.max, aabb.min))),
                                    RVec(VAdd(aabb.min, aabb.max), 2), TRUE)]

\* CalculateVolumeProperties once sixVolume is summed up
VolumeProperties(hull, sixVolume) ==
    IF sixVolume > 0
    THEN VolumePropertiesOfSolid(hull, sixVolume,
                                 RVec(MassCenterSumLoop(hull, 3), 4 * sixVolume))
    ELSE VolumePropertiesOfBox(hull, sixVolume, Hull_getAabb(hull))

\* CalculateVolumeProperties that stores no volume: m_Volume stays at the
\* value Initialize gave it
CalculateVolumePropertiesUnmarked(hull) ==
    [VolumeProperties(hull, SixVolumeLoop(hull, 3)) EXCEPT !.m_Volume = hull.m_Volume]

\* CPhysConvex_Hull::CalculateVolumeProperties: the hull with its cached values
CalculateVolumeProperties(hull) ==
    IF hull.m_Volume >= 0 THEN hull
    ELSE VolumeProperties(hull, SixVolumeLoop(hull, 3))

(***************************************************************************)
(* The virtual queries of CPhysConvex                                      *)
(***************************************************************************)
\* CPhysConvex_Hull::GetVolume / CPhysConvex_Box::GetVolume
GetVolume(convex) ==
    IF convex.type = "box" THEN Box_GetVolume(convex)
    ELSE CalculateVolumeProperties(convex).m_Volume

\* CPhysConvex_Hull::GetMassCenter / CPhysConvex::GetMassCenter
GetMassCenter(convex) ==
    IF convex.type = "box" THEN RV(VZero)
    ELSE CalculateVolumeProperties(convex).m_MassCenter

\* CPhysConvex_Hull::GetInertia / CPhysConvex_Box::GetInertia
GetInertia(convex) ==
    IF convex.type = "box" THEN Box_GetInertia(convex)
    ELSE CalculateVolumeProperties(convex).m_Inertia

\* CPhysConvex_Box::GetOriginInCompound / CPhysConvex::GetOriginInCompound
GetOriginInCompound(convex) ==
    IF convex.type = "box" THEN convex.m_Origin ELSE VZero

\* btCollisionShape::getAabb of the convex's shape
getAabb(convex) ==
    IF convex.type = "box" THEN Box_getAabb(convex) ELSE Hull_getAabb(convex)

(***************************************************************************)
(* Compound shapes.  children are ids into the convex heap (the child      *)
(* shapes' user pointers), childOrigin the origins of the child            *)
(* transforms of the btCompoundShape.                                      *)
(***************************************************************************)
\* Sum of convex->GetVolume() over pConvex[convexIndex..]
RECURSIVE VolumeLoop(_, _, _)
VolumeLoop(heap, pConvex, convexIndex) ==
    IF convexIndex > Len(pConvex) THEN 0
    ELSE GetVolume(heap[pConvex[convexIndex]]) + VolumeLoop(heap, pConvex, convexIndex + 1)

\* MassCenterLoop with the convexes' origins in the compound left out
RECURSIVE MassCenterLoopNoOrigin(_, _, _)
MassCenterLoopNoOrigin(heap, pConvex, convexIndex) ==
    IF convexIndex > Len(pConvex) THEN RV(VZero)
    ELSE RVAdd(RVScale(GetVolume(heap[pConvex[convexIndex]]),
                       GetMassCenter(heap[pConvex[convexIndex]])),
               MassCenterLoopNoOrigin(heap, pConvex, convexIndex + 1))

\* Sum of (GetOriginInCompound() + GetMassCenter()) * convexVolume
RECURSIVE MassCenterLoop(_, _, _)
MassCenterLoop(heap, pConvex, convexIndex) ==
    IF convexIndex > Len(pConvex) THEN RV(VZero)
    ELSE LET convex == heap[pConvex[convexIndex]]
         IN  RVAdd(RVScale(GetVolume(convex),
                           RVAdd(RV(GetOriginInCompound(convex)), GetMassCenter(convex))),
                   MassCenterLoop(heap, pConvex, convexIndex + 1))

\* the fallback of the constructor: (aabbMin + aabbMax) * 0.5 over the
\* convexes' AABBs, each moved by its origin in the compound
AabbMidpoint(heap, pConvex) ==
    LET n == Len(pConvex)
        lows(c) == {getAabb(heap[pConvex[i]]).min[c]
                        + GetOriginInCompound(heap[pConvex[i]])[c] : i \in 1..n}
        highs(c) == {getAabb(heap[pConvex[i]]).max[c]
                        + GetOriginInCompound(heap[pConvex[i]])[c] : i \in 1..n}
        aabbMin == [c \in Axis |-> CHOOSE v \in lows(c) : \A w \in lows(c) : v <= w]
        aabbMax == [c \in Axis |-> CHOOSE v \in highs(c) : \A w \in highs(c) : v >= w]
    IN  RVec(VAdd(aabbMin, aabbMax), 2)

\* Sum of GetVolume() * OffsetInertia(GetInertia(), child origin, false)
RECURSIVE CompoundInertiaLoop(_, _, _, _)
CompoundInertiaLoop(heap, children, childOrigin, childIndex) ==
    IF childIndex > Len(children) THEN RV(VZero)
    ELSE LET convex == heap[children[childIndex]]
         IN  RVAdd(RVScale(GetVolume(convex),
                           OffsetInertia(GetInertia(convex), childOrigin[childIndex], FALSE)),
                   CompoundInertiaLoop(heap, children, childOrigin, childIndex + 1))

\* the AABB of child i of the compound, moved by the origin of its transform
ChildAabb(heap, compound, i) ==
    [min |-> RVAdd(RV(getAabb(heap[compound.children[i]]).min), compound.childOrigin[i]),
     max |-> RVAdd(RV(getAabb(heap[compound.children[i]]).max), compound.childOrigin[i])]

\* component c of a, as a quotient
RComponent(a, c) == [n |-> a.n[c], d |-> a.d]

\* the least (up = FALSE) or the greatest (up = TRUE) quotient of the set
RExtreme(S, up) ==
    CHOOSE v \in S : \A w \in S :
        IF up THEN v.n * w.d >= w.n * v.d ELSE v.n * w.d <= w.n * v.d

\* the vector of three quotients
RVJoin(v) ==
    RVec(<<v[1].n * v[2].d * v[3].d, v[2].n * v[1].d * v[3].d, v[3].n * v[1].d * v[2].d>>,
         v[1].d * v[2].d * v[3].d)

\* btCompoundShape::getAabb under the identity transform (without margin)
Compound_getAabb(heap, compound) ==
    [min |-> RVJoin([c \in Axis |-> RExtreme(
                 {RComponent(ChildAabb(heap, compound, i).min, c) :
                      i \in 1..Len(compound.children)}, FALSE)]),
     max |-> RVJoin([c \in Axis |-> RExtreme(
                 {RComponent(ChildAabb(heap, compound, i).max, c) :
                      i \in 1..Len(compound.children)}, TRUE)])]

\* CPhysCollide_Compound::GetVolume: the lazily calculated m_Volume
Compound_GetVolume(heap, compound) ==
    IF compound.m_Volume < 0 THEN VolumeLoop(heap, compound.children, 1)
    ELSE compound.m_Volume

\* CPhysCollide_Compound::CalculateInertia: the compound with m_Volume, m_Inertia set
CalculateInertia(heap, compound) ==
    LET volume == Compound_GetVolume(heap, compound)
    IN  IF volume >= 0
        THEN [compound EXCEPT
                 !.m_Volume = volume,
                 !.m_Inertia = RVAbsolute(RVDiv(
                     CompoundInertiaLoop(heap, compound.children, compound.childOrigin, 1),
                     volume))]
        ELSE LET aabb == Compound_getAabb(heap, compound)
             IN  [compound EXCEPT
                     !.m_Volume = volume,
                     !.m_Inertia = OffsetInertia(BoxInertia(RVSub(aabb.max, aabb.min)),
                                                 RVDiv(RVAdd(aabb.min, aabb.max), 2), TRUE)]

\* the center of mass the constructor calculates
ConstructorMassCenter(heap, pConvex) ==
    LET volume == VolumeLoop(heap, pConvex, 1)
    IN  IF volume > 0 THEN RVDiv(MassCenterLoop(heap, pConvex, 1), volume)
        ELSE AabbMidpoint(heap, pConvex)

\* CPhysCollide_Compound::CPhysCollide_Compound(CPhysConvex **pConvex, int convexCount)
CPhysCollide_Compound(heap, pConvex) ==
    LET massCenter == ConstructorMassCenter(heap, pConvex)
    IN  CalculateInertia(heap,
            [m_Owner |-> OWNER_GAME,
             children |-> pConvex,
             childOrigin |-> [i \in 1..Len(pConvex) |->
                                RVSub(RV(GetOriginInCompound(heap[pConvex[i]])), massCenter)],
             m_Volume |-> VolumeLoop(heap, pConvex, 1),
             m_MassCenter |-> massCenter,
             m_Inertia |-> RV(VZero)])

\* what the constructor leaves in the convexes: the ownership tag moves from
\* OWNER_GAME to OWNER_COMPOUND, and a hull keeps the values GetVolume calculated
AbsorbConvexes(heap, pConvex) ==
    [id \in 1..Len(heap) |->
        IF \E i \in 1..Len(pConvex) : pConvex[i] = id
        THEN LET convex == IF heap[id].type = "hull"
                           THEN CalculateVolumeProperties(heap[id]) ELSE heap[id]
             IN  IF convex.m_Owner = OWNER_GAME
                 THEN [convex EXCEPT !.m_Owner = OWNER_COMPOUND] ELSE convex
        ELSE heap[id]]

(***************************************************************************)
(* Bounding boxes (both convex and collideable)                            *)
(***************************************************************************)
\* const btScalar threshold = HL2BULLET(0.1f)
threshold == 2

\* ComponentLoop with the boxes compared for equality instead of within threshold
RECURSIVE ComponentLoopExact(_, _, _, _, _)
ComponentLoopExact(cacheBox, halfExtents, origin, cacheCompound, component) ==
    IF component > 3 THEN FALSE
    ELSE IF cacheBox.halfExtents[component] # halfExtents[component]
            \/ cacheBox.m_Origin[component] # origin[component]
         THEN FALSE
         ELSE IF cacheCompound # nullptr THEN TRUE
              ELSE ComponentLoopExact(cacheBox, halfExtents, origin, cacheCompound,
                                      component + 1)

\* the component loop of CreateBBox for one cache entry: TRUE when the loop
\* returns cacheCompound, FALSE when it breaks or runs out
RECURSIVE ComponentLoop(_, _, _, _, _)
ComponentLoop(cacheBox, halfExtents, origin, cacheCompound, component) ==
    IF component > 3 THEN FALSE
    ELSE IF Abs(cacheBox.halfExtents[component] - halfExtents[component]) > threshold
            \/ Abs(cacheBox.m_Origin[component] - origin[component]) > threshold
         THEN FALSE
         ELSE IF cacheCompound # nullptr THEN TRUE
              ELSE ComponentLoop(cacheBox, halfExtents, origin, cacheCompound, component + 1)

\* the cache loop of CreateBBox, from bboxIndex down: the compound returned, or
\* nullptr when the loop ends without a return
RECURSIVE CacheLoop(_, _, _, _, _, _)
CacheLoop(heap, collides, cache, halfExtents, origin, bboxIndex) ==
    IF bboxIndex < 1 THEN nullptr
    ELSE LET cacheCompound == cache[bboxIndex]
             cacheBox == heap[collides[cacheCompound].children[1]]
         IN  IF ComponentLoop(cacheBox, halfExtents, origin, cacheCompound, 1)
             THEN cacheCompound
             ELSE CacheLoop(heap, collides, cache, halfExtents, origin, bboxIndex - 1)

\* the end of CreateBBox, no cached compound found: the new box and the new
\* compound, both OWNER_INTERNAL, are allocated and the compound is cached
NewBBox(heap, collides, cache, box) ==
    [ret |-> Len(collides) + 1,
     convexes |-> Append(heap, box),
     compounds |-> Append(collides,
                          [CPhysCollide_Compound(Append(heap, box), <<Len(heap) + 1>>)
                               EXCEPT !.m_Owner = OWNER_INTERNAL]),
     cache |-> Append(cache, Len(collides) + 1)]

\* CreateBBox after the cache loop, which returned `found`
FoundOrNewBBox(heap, collides, cache, halfExtents, origin, found) ==
    IF found # nullptr
    THEN [ret |-> found, convexes |-> heap, compounds |-> collides, cache |-> cache]
    ELSE NewBBox(heap, collides, cache,
                 [CPhysConvex_Box(halfExtents, origin) EXCEPT !.m_Owner = OWNER_INTERNAL])

\* CPhysicsCollision::CreateBBox: the compound returned and the heaps and the
\* cache it leaves.  mins and maxs are the corners as ConvertPositionToBullet
\* gives them (bulletMins, bulletMaxs); the conversion is one-to-one, so that
\* mins == maxs holds of the corners exactly when it holds of their images.
CreateBBox(heap, collides, cache, mins, maxs) ==
    IF mins = maxs
    THEN [ret |-> nullptr, convexes |-> heap, compounds |-> collides, cache |-> cache]
    ELSE FoundOrNewBBox(heap, collides, cache,
                        [c \in Axis |-> Abs(maxs[c] - mins[c]) \div 2],
                        [c \in Axis |-> (mins[c] + maxs[c]) \div 2],
                        CacheLoop(heap, collides, cache,
                                  [c \in Axis |-> Abs(maxs[c] - mins[c]) \div 2],
                                  [c \in Axis |-> (mins[c] + maxs[c]) \div 2],
                                  Len(cache)))

(***************************************************************************)
(* The box cache of one CPhysicsCollision: box requests only.              *)
(***************************************************************************)
\* the <<min, max>> a box request may have on one axis
AxisSpans == {<<0, 0>>, <<0, 4>>, <<6, 10>>}

BoxRequests ==
    {r \in [mins : [Axis -> {0, 6}], maxs : [Axis -> {0, 4, 10}]] :
        \A c \in Axis : <<r.mins[c], r.maxs[c]>> \in AxisSpans}

\* no field of the buffer is overwritten
NoDamage == [address |-> 0, field |-> "none", value |-> 0]

NoCall ==
    [op |-> "none", damage |-> NoDamage, mins |-> VZero, maxs |-> VZero, pConvex |-> <<>>,
     result |-> nullptr, cacheBefore |-> <<>>,
     object |-> nullptr, listBefore |-> <<>>, massCenterBefore |-> RV(VZero),
     order |-> "none", leaf |-> 0, convex |-> 0, point |-> VZero, crashed |-> FALSE,
     points |-> <<>>, hullError |-> "none", mNumFaces |-> 0, m_OutputVertices |-> <<>>,
     m_Indices |-> <<>>, hullLibraryCalled |-> FALSE]

\* the byte order of a VCollide buffer: that of the host, or the other one
ByteOrders == {"native", "foreign"}

\* no ledge, and the ledge tree of a process that loads no VCollide buffer
NoLedge ==
    [size_div_16 |-> 0, n_triangles |-> 0, points |-> <<>>, triangles |-> <<>>,
     client_data |-> 0]

NoTree == [ledge |-> NoLedge, children |-> <<>>]

\* nothing decoded yet
NotLoaded == [loaded |-> FALSE, crashed |-> FALSE, hulls |-> <<>>]

\* no CPhysicsEnvironment was created
NoEnvironment ==
    /\ env = [created |-> FALSE]
    /\ physicsObjects = <<>>
    /\ callbacks = <<>>
    /\ simulate = [pc |-> "none"]

NothingLoaded ==
    /\ ledgetree = NoTree
    /\ collide = [order \in ByteOrders |-> NotLoaded]
    /\ NoEnvironment

\* the bodies (CPhysicsObject) that may be attached to a collideable
MaxBodies == 3

Bodies == 1..MaxBodies

\* no body exists yet: the list fields of the bodies are not in use
NoBodies ==
    /\ m_CollideObjectNext = [object \in Bodies |-> nullptr]
    /\ m_CollideObjectPrevious = [object \in Bodies |-> nullptr]
    /\ attached = {}
    /\ notified = <<>>
    /\ crashed = FALSE

Init ==
    /\ convexes = <<>>
    /\ compounds = <<>>
    /\ m_BBoxCache = <<>>
    /\ last = NoCall
    /\ m_ObjectReferenceList = nullptr
    /\ initialList = nullptr
    /\ NoBodies
    /\ NothingLoaded

\* the state after a box request that CreateBBox answered with r
ReturnBBox(op, mins, maxs, r) ==
    /\ convexes' = r.convexes
    /\ compounds' = r.compounds
    /\ m_BBoxCache' = r.cache
    /\ last' = [NoCall EXCEPT
                    !.op = op, !.mins = mins, !.maxs = maxs,
                    !.result = IF r.ret = nullptr \/ op = "BBoxToCollide" THEN r.ret
                               ELSE r.compounds[r.ret].children[1],
                    !.cacheBefore = m_BBoxCache]
    /\ UNCHANGED <<listVars, decodeVars, envVars>>

\* CPhysicsCollision::BBoxToCollide
BBoxToCollide(mins, maxs) ==
    ReturnBBox("BBoxToCollide", mins, maxs,
               CreateBBox(convexes, compounds, m_BBoxCache, mins, maxs))

\* CPhysicsCollision::BBoxToConvex: the first child of the compound
BBoxToConvex(mins, maxs) ==
    ReturnBBox("BBoxToConvex", mins, maxs,
               CreateBBox(convexes, compounds, m_BBoxCache, mins, maxs))

Next ==
    \/ \E r \in BoxRequests : BBoxToCollide(r.mins, r.maxs)
    \/ \E r \in BoxRequests : BBoxToConvex(r.mins, r.maxs)

Spec == Init /\ [][Next]_vars

(***************************************************************************)
(* Claims about the box cache                                              *)
(***************************************************************************)
IsBoxRequest == last.op \in {"BBoxToCollide", "BBoxToConvex"}

RequestHalfExtents == [c \in Axis |-> Abs(last.maxs[c] - last.mins[c]) \div 2]

RequestOrigin == [c \in Axis |-> (last.mins[c] + last.maxs[c]) \div 2]

\* the box of a cached compound
CachedBox(compound) == convexes[compounds[compound].children[1]]

\* the request is within the tolerance of the box on all three axes
WithinTolerance(box) ==
    \A c \in Axis :
        /\ Abs(box.halfExtents[c] - RequestHalfExtents[c]) <= threshold
        /\ Abs(box.m_Origin[c] - RequestOrigin[c]) <= threshold

CachedBefore == {last.cacheBefore[i] : i \in 1..Len(last.cacheBefore)}

\* the compound the last box request answered with (nullptr when it returned none)
ResultCompound ==
    IF last.result = nullptr THEN nullptr
    ELSE IF last.op = "BBoxToCollide" THEN last.result
    ELSE CHOOSE k \in 1..Len(compounds) : compounds[k].children[1] = last.result

\* C1 (as claimed, for requests with mins # maxs): a box request that differs
\* from every cached box by more than the tolerance on at least one axis
\* returns a new compound, distinct from every compound returned before.
C1_MissReturnsNewCompound ==
    (/\ IsBoxRequest
     /\ last.mins # last.maxs
     /\ \A k \in CachedBefore : ~WithinTolerance(CachedBox(k)))
    => (ResultCompound # nullptr /\ ResultCompound \notin CachedBefore)

\* C2 (as claimed): a box request within the tolerance of a cached box on all
\* three axes returns an already cached compound and leaves the cache as it was.
C2_HitReturnsCached ==
    (/\ IsBoxRequest
     /\ \E k \in CachedBefore : WithinTolerance(CachedBox(k)))
    => (ResultCompound \in CachedBefore /\ m_BBoxCache = last.cacheBefore)

\* C2 (amended): a box request with mins # maxs that is within the tolerance of
\* a cached box on all three axes returns an already cached compound, the
\* instance itself, and the cache and both heaps are left as they were.
C2_NonEmptyHitReturnsCached ==
    (/\ IsBoxRequest
     /\ last.mins # last.maxs
     /\ \E k \in CachedBefore : WithinTolerance(CachedBox(k)))
    => (/\ ResultCompound \in CachedBefore
        /\ m_BBoxCache = last.cacheBefore
        /\ Len(compounds) = Len(last.cacheBefore)
        /\ Len(convexes) = Len(last.cacheBefore))

\* C2 witness: a request that is not the cached box itself, but within its
\* tolerance, was answered from the cache
C2_Witness ==
    /\ IsBoxRequest
    /\ last.mins # last.maxs
    /\ \E k \in CachedBefore :
          /\ WithinTolerance(CachedBox(k))
          /\ CachedBox(k).halfExtents # RequestHalfExtents
          /\ ResultCompound = k

(***************************************************************************)
(* Convexes and collideables made by the game: ConvexFromVerts,            *)
(* BBoxToConvex, ConvertConvexToCollide, ConvexFree, SetConvexGameData.    *)
(***************************************************************************)
MaxHulls == 1

MaxCompounds == 1

QE_OK == "QE_OK"

QE_FAIL == "QE_FAIL"

\* the vertex lists handed to ConvexFromVerts: two points, three points on a
\* line, the four corners of a tetrahedron
VertLists ==
    {<<<<0, 0, 0>>, <<2, 0, 0>>>>,
     <<<<0, 0, 0>>, <<2, 0, 0>>, <<4, 0, 0>>>>,
     <<<<0, 0, 0>>, <<2, 0, 0>>, <<0, 2, 0>>, <<0, 0, 2>>>>}

\* HullLibrary::CreateConvexHull with QF_TRIANGLES (Bullet): the result for the
\* vertex lists above
CreateConvexHull(points) ==
    IF Len(points) = 4
    THEN [hullError |-> QE_OK, mNumFaces |-> 4, m_OutputVertices |-> points,
          m_Indices |-> <<0, 2, 1, 0, 1, 3, 0, 3, 2, 1, 2, 3>>]
    ELSE [hullError |-> QE_FAIL, mNumFaces |-> 0, m_OutputVertices |-> <<>>,
          m_Indices |-> <<>>]

\* CreateFromBulletPoints with the hull library always called and its faces
\* never counted
CreateFromAnyHullResult(points, hull) ==
    IF hull.hullError # QE_OK THEN NoConvex
    ELSE CPhysConvex_Hull(hull.m_OutputVertices, hull.m_Indices)

\* CPhysConvex_Hull::CreateFromBulletPoints, `hull` being what
\* hullLibrary.CreateConvexHull gives for the points when it is called: the
\* hull, or NoConvex for nullptr
CreateFromHullResult(points, hull) ==
    IF Len(points) < 3 THEN NoConvex
    ELSE IF hull.hullError # QE_OK \/ hull.mNumFaces = 0 THEN NoConvex
         ELSE CPhysConvex_Hull(hull.m_OutputVertices,
                               SubSeq(hull.m_Indices, 1, 3 * hull.mNumFaces))

\* CPhysConvex_Hull::CreateFromBulletPoints on the vertex lists above
CreateFromBulletPoints(points) == CreateFromHullResult(points, CreateConvexHull(points))

\* the vertex lists handed to ConvexFromVerts and ConvexFromConvexPolyhedron:
\* those above, and the tetrahedron with a point inside it
PointLists ==
    VertLists \cup {<<<<0, 0, 0>>, <<4, 0, 0>>, <<0, 4, 0>>, <<0, 0, 4>>, <<1, 1, 1>>>>}

\* the triangles hullLibrary.CreateConvexHull may report for the points: the
\* tetrahedron on the first four, or one triangle when there are fewer
FacesOf(points) ==
    IF Len(points) >= 4
    THEN [mNumFaces |-> 4, m_OutputVertices |-> SubSeq(points, 1, 4),
          m_Indices |-> <<0, 2, 1, 0, 1, 3, 0, 3, 2, 1, 2, 3>>]
    ELSE [mNumFaces |-> 1, m_OutputVertices |-> points, m_Indices |-> <<0, 1, 0>>]

\* HullLibrary::CreateConvexHull (Bullet) is not part of the repository: what
\* it may give for the points is an error or success, with or without faces
HullResults(points) ==
    {[hullError |-> e, mNumFaces |-> IF f THEN FacesOf(points).mNumFaces ELSE 0,
      m_OutputVertices |-> IF f THEN FacesOf(points).m_OutputVertices ELSE <<>>,
      m_Indices |-> IF f THEN FacesOf(points).m_Indices ELSE <<>>] :
        e \in {QE_OK, QE_FAIL}, f \in BOOLEAN}

\* CreateFromBulletPoints returns before hullLibrary.CreateConvexHull is called
\* when there are fewer than 3 points
CreateConvexHullCalled(points) == ~(Len(points) < 3)

\* the state after ConvexFromVerts / ConvexFromConvexPolyhedron returned convex
ReturnHull(op, points, hull, convex) ==
    /\ convexes' = IF convex = NoConvex THEN convexes ELSE Append(convexes, convex)
    /\ last' = [NoCall EXCEPT
                    !.op = op, !.points = points,
                    !.hullError = hull.hullError, !.mNumFaces = hull.mNumFaces,
                    !.m_OutputVertices = hull.m_OutputVertices,
                    !.m_Indices = hull.m_Indices,
                    !.hullLibraryCalled = CreateConvexHullCalled(points),
                    !.result = IF convex = NoConvex THEN nullptr ELSE Len(convexes) + 1]
    /\ UNCHANGED <<compounds, m_BBoxCache>>
    /\ UNCHANGED <<listVars, decodeVars, envVars>>

\* CPhysicsCollision::ConvexFromVerts / ConvexFromConvexPolyhedron on the points,
\* `hull` being what the hull library gives for them
HullFromUnorderedPoints(op, points, hull) ==
    /\ Cardinality({id \in 1..Len(convexes) : convexes[id].type = "hull"}) < MaxHulls
    /\ ReturnHull(op, points, hull, CreateFromHullResult(points, hull))

\* CPhysicsCollision::ConvexFromVerts on the vertex lists above
ConvexFromVerts(pVerts) ==
    HullFromUnorderedPoints("ConvexFromVerts", pVerts, CreateConvexHull(pVerts))

\* the convexes a caller holds a valid pointer to
LiveConvexes == {id \in 1..Len(convexes) : ~convexes[id].deleted}

\* the arrays of convexes a caller may pass: every list of valid pointers
\* without a repetition, the empty one included
ConvexLists ==
    {pConvex \in UNION {[1..n -> LiveConvexes] : n \in 0..Cardinality(LiveConvexes)} :
        \A i, j \in 1..Len(pConvex) : pConvex[i] = pConvex[j] => i = j}

GameCompounds == {k \in 1..Len(compounds) : compounds[k].m_Owner = OWNER_GAME}

\* CPhysicsCollision::ConvertConvexToCollide
ConvertConvexToCollide(pConvex) ==
    /\ Cardinality(GameCompounds) < MaxCompounds
    /\ IF Len(pConvex) = 0
       THEN /\ last' = [NoCall EXCEPT !.op = "ConvertConvexToCollide"]
            /\ UNCHANGED <<convexes, compounds, m_BBoxCache>>
            /\ UNCHANGED <<listVars, decodeVars, envVars>>
       ELSE /\ compounds' = Append(compounds, CPhysCollide_Compound(convexes, pConvex))
            /\ convexes' = AbsorbConvexes(convexes, pConvex)
            /\ last' = [NoCall EXCEPT !.op = "ConvertConvexToCollide",
                                      !.pConvex = pConvex,
                                      !.result = Len(compounds) + 1]
            /\ UNCHANGED m_BBoxCache
            /\ UNCHANGED <<listVars, decodeVars, envVars>>

\* ConvexFree without the test of the owner: the primitive is always deleted
ConvexFreeAnyOwner(pConvex) ==
    /\ convexes' = [convexes EXCEPT ![pConvex].deleted = TRUE]
    /\ last' = [NoCall EXCEPT !.op = "ConvexFree", !.pConvex = <<pConvex>>]
    /\ UNCHANGED <<compounds, m_BBoxCache>>
    /\ UNCHANGED <<listVars, decodeVars, envVars>>

\* CPhysicsCollision::ConvexFree
ConvexFree(pConvex) ==
    /\ convexes' = IF convexes[pConvex].m_Owner = OWNER_GAME
                   THEN [convexes EXCEPT ![pConvex].deleted = TRUE]
                   ELSE convexes
    /\ last' = [NoCall EXCEPT !.op = "ConvexFree", !.pConvex = <<pConvex>>]
    /\ UNCHANGED <<compounds, m_BBoxCache>>
    /\ UNCHANGED <<listVars, decodeVars, envVars>>

\* the box requests of this specification: the empty box, a cube, and a flat
\* box (of volume 0) that is far from the cube on the first axis
OwnerBoxRequests ==
    {r \in BoxRequests : \A c \in Axis : <<r.mins[c], r.maxs[c]>> = <<0, 0>>}
    \cup {r \in BoxRequests : \A c \in Axis : <<r.mins[c], r.maxs[c]>> = <<0, 4>>}
    \cup {r \in BoxRequests : /\ <<r.mins[1], r.maxs[1]>> = <<6, 10>>
                              /\ <<r.mins[2], r.maxs[2]>> = <<0, 0>>
                              /\ <<r.mins[3], r.maxs[3]>> = <<0, 4>>}

NextOwner ==
    \/ \E pVerts \in VertLists : ConvexFromVerts(pVerts)
    \/ \E r \in OwnerBoxRequests : BBoxToConvex(r.mins, r.maxs)
    \/ \E pConvex \in ConvexLists : ConvertConvexToCollide(pConvex)
    \/ \E pConvex \in LiveConvexes : ConvexFree(pConvex)

SpecOwner == Init /\ [][NextOwner]_vars

\* the compounds a convex is a child of
CompoundsOf(convex) ==
    {k \in 1..Len(compounds) :
        \E i \in 1..Len(compounds[k].children) : compounds[k].children[i] = convex}

\* C5 (as claimed): no convex primitive is a child of more than one compound
\* at the same time.
C5_ExclusiveOwnership ==
    \A convex \in 1..Len(convexes) : Cardinality(CompoundsOf(convex)) <= 1

\* the sum and the product of a sequence of integers
RECURSIVE SeqSum(_)
SeqSum(seq) == IF seq = <<>> THEN 0 ELSE Head(seq) + SeqSum(Tail(seq))

RECURSIVE SeqProduct(_)
SeqProduct(seq) == IF seq = <<>> THEN 1 ELSE Head(seq) * SeqProduct(Tail(seq))

\* child i of compound k
Child(k, i) == convexes[compounds[k].children[i]]

ChildCount(k) == Len(compounds[k].children)

\* the sum of the volumes of the children of compound k
TotalVolume(k) == SeqSum([i \in 1..ChildCount(k) |-> GetVolume(Child(k, i))])

\* the product of the denominators of the children's centers of mass
CommonDenominator(k) ==
    SeqProduct([i \in 1..ChildCount(k) |-> GetMassCenter(Child(k, i)).d])

\* CommonDenominator(k) times the sum over the children of component c of
\* (origin + local center of mass) * volume
WeightedSum(k, c) ==
    SeqSum([i \in 1..ChildCount(k) |->
        (GetOriginInCompound(Child(k, i))[c] * GetMassCenter(Child(k, i)).d
            + GetMassCenter(Child(k, i)).n[c])
        * GetVolume(Child(k, i))
        * SeqProduct([j \in 1..ChildCount(k) |->
              IF j = i THEN 1 ELSE GetMassCenter(Child(k, j)).d])])

\* the least and the greatest bound on axis c of the children's AABBs, each
\* moved by the child's origin in the compound
UnionLow(k, c) ==
    CHOOSE v \in {getAabb(Child(k, i)).min[c] + GetOriginInCompound(Child(k, i))[c] :
                      i \in 1..ChildCount(k)} :
        \A i \in 1..ChildCount(k) :
            v <= getAabb(Child(k, i)).min[c] + GetOriginInCompound(Child(k, i))[c]

UnionHigh(k, c) ==
    CHOOSE v \in {getAabb(Child(k, i)).max[c] + GetOriginInCompound(Child(k, i))[c] :
                      i \in 1..ChildCount(k)} :
        \A i \in 1..ChildCount(k) :
            v >= getAabb(Child(k, i)).max[c] + GetOriginInCompound(Child(k, i))[c]

\* C10: for every compound built from a list of primitives the volume is the
\* sum of the primitives' volumes; when that sum is > 0 the center of mass is
\* the sum of (origin + local center of mass) * volume over the primitives,
\* divided by the total volume; otherwise it is the midpoint of the union of
\* the primitives' AABBs, each moved by the primitive's origin.
C10_CompoundVolumeAndMassCenter ==
    \A k \in 1..Len(compounds) :
        /\ compounds[k].m_Volume = TotalVolume(k)
        /\ Compound_GetVolume(convexes, compounds[k]) = TotalVolume(k)
        /\ compounds[k].m_MassCenter.d > 0
        /\ \A c \in Axis :
              IF TotalVolume(k) > 0
              THEN compounds[k].m_MassCenter.n[c] * TotalVolume(k) * CommonDenominator(k)
                       = compounds[k].m_MassCenter.d * WeightedSum(k, c)
              ELSE 2 * compounds[k].m_MassCenter.n[c]
                       = compounds[k].m_MassCenter.d * (UnionLow(k, c) + UnionHigh(k, c))

\* C10 witness: a compound of a hull and a box that lies off the origin, both
\* of volume > 0, beside a compound of volume 0
C10_Witness ==
    /\ \E k \in 1..Len(compounds) :
          /\ ChildCount(k) = 2
          /\ {Child(k, 1).type, Child(k, 2).type} = {"hull", "box"}
          /\ \A i \in 1..2 : GetVolume(Child(k, i)) > 0
          /\ \E i \in 1..2 : GetOriginInCompound(Child(k, i)) # VZero
    /\ \E k \in 1..Len(compounds) : TotalVolume(k) = 0

(***************************************************************************)
(* The object reference list of one collideable: the compound made from    *)
(* one hull, the bodies that attach to it and detach from it, and          *)
(* SetMassCenter, which walks the list.                                    *)
(***************************************************************************)
\* a pointer that points to no object: what an uninitialized pointer may hold
WildPointer == -1

\* the values the constructor CPhysCollide::CPhysCollide leaves in
\* m_ObjectReferenceList: its initializer list sets m_Owner and
\* m_OrthographicAreas only, so the pointer holds whatever the memory held
UninitializedPointer == {nullptr, WildPointer}

TetrahedronVerts == <<<<0, 0, 0>>, <<2, 0, 0>>, <<0, 2, 0>>, <<0, 0, 2>>>>

InitList ==
    /\ convexes = AbsorbConvexes(<<CreateFromBulletPoints(TetrahedronVerts)>>, <<1>>)
    /\ compounds = <<CPhysCollide_Compound(<<CreateFromBulletPoints(TetrahedronVerts)>>,
                                           <<1>>)>>
    /\ m_BBoxCache = <<>>
    /\ last = NoCall
    /\ m_ObjectReferenceList \in UninitializedPointer
    /\ initialList = m_ObjectReferenceList
    /\ NoBodies
    /\ NothingLoaded

\* CPhysCollide::AddObjectReference: the new list head and the value returned
AddObjectReference(list, object) == [m_ObjectReferenceList |-> object, next |-> list]

\* CPhysCollide::RemoveObjectReference with the list head kept when the object
\* is the only one
RemoveObjectReferenceKeepSole(list, object) ==
    IF list = object THEN m_CollideObjectNext[object] ELSE list

\* CPhysCollide::RemoveObjectReference: the new list head
RemoveObjectReference(list, object) ==
    IF list = object
    THEN IF m_CollideObjectNext[object] = object THEN nullptr
         ELSE m_CollideObjectNext[object]
    ELSE list

\* the objects met from firstObject along GetNextCollideObject() until
\* firstObject comes again, a wild pointer is met or `fuel` objects were met
RECURSIVE WalkList(_, _, _)
WalkList(firstObject, object, fuel) ==
    IF fuel = 0 \/ object \notin Bodies THEN <<object>>
    ELSE IF m_CollideObjectNext[object] = firstObject THEN <<object>>
    ELSE <<object>> \o WalkList(firstObject, m_CollideObjectNext[object], fuel - 1)

\* the objects of the list in the order of NotifyObjectsOfMassCenterChange
ObjectList ==
    IF m_ObjectReferenceList = nullptr THEN <<>>
    ELSE WalkList(m_ObjectReferenceList, m_ObjectReferenceList, MaxBodies)

\* CPhysicsObject::AddReferenceToCollide: the body links itself before the
\* former list head
AddReferenceToCollide(object) ==
    LET r == AddObjectReference(m_ObjectReferenceList, object)
    IN  /\ ~crashed
        /\ object \notin attached
        /\ m_ObjectReferenceList' = r.m_ObjectReferenceList
        /\ attached' = attached \cup {object}
        /\ IF r.next = nullptr
           THEN /\ m_CollideObjectNext' = [m_CollideObjectNext EXCEPT ![object] = object]
                /\ m_CollideObjectPrevious' =
                       [m_CollideObjectPrevious EXCEPT ![object] = object]
                /\ crashed' = FALSE
           ELSE IF r.next \notin Bodies
           THEN /\ m_CollideObjectNext' = [m_CollideObjectNext EXCEPT ![object] = r.next]
                /\ UNCHANGED m_CollideObjectPrevious
                /\ crashed' = TRUE
           ELSE LET previous == m_CollideObjectPrevious[r.next]
                IN  /\ m_CollideObjectNext' =
                           [m_CollideObjectNext EXCEPT ![object] = r.next,
                                                       ![previous] = object]
                    /\ m_CollideObjectPrevious' =
                           [m_CollideObjectPrevious EXCEPT ![object] = previous,
                                                           ![r.next] = object]
                    /\ crashed' = FALSE
        /\ notified' = <<>>
        /\ last' = [NoCall EXCEPT !.op = "AddReferenceToCollide", !.object = object,
                                  !.listBefore = ObjectList]
        /\ UNCHANGED <<collideVars, initialList, decodeVars, envVars>>

\* CPhysicsObject::RemoveReferenceFromCollide, called as the body is destroyed:
\* the body tells the collideable and unlinks itself; its own fields end with it
RemoveReferenceFromCollide(object) ==
    LET next == m_CollideObjectNext[object]
        previous == m_CollideObjectPrevious[object]
    IN  /\ ~crashed
        /\ object \in attached
        /\ m_ObjectReferenceList' = RemoveObjectReference(m_ObjectReferenceList, object)
        /\ attached' = attached \ {object}
        /\ m_CollideObjectNext' =
               [[m_CollideObjectNext EXCEPT ![previous] = next] EXCEPT ![object] = nullptr]
        /\ m_CollideObjectPrevious' =
               [[m_CollideObjectPrevious EXCEPT ![next] = previous]
                    EXCEPT ![object] = nullptr]
        /\ notified' = <<>>
        /\ last' = [NoCall EXCEPT !.op = "RemoveReferenceFromCollide", !.object = object,
                                  !.listBefore = ObjectList]
        /\ UNCHANGED <<collideVars, initialList, crashed, decodeVars, envVars>>

\* CPhysCollide::NotifyObjectsOfMassCenterChange: the calls of
\* NotifyMassCenterChanged, in order, each with the collideable as the body
\* finds it when it is called
NotifyObjectsOfMassCenterChange(compound, oldMassCenter) ==
    [i \in 1..Len(ObjectList) |->
        [object |-> ObjectList[i], oldMassCenter |-> oldMassCenter, collide |-> compound]]

\* the centers of mass the game sets
MassCenters == {RV(<<0, 0, 0>>), RV(<<2, 0, 0>>)}

\* SetMassCenter before it notifies, with the child transforms left as they were
MovedCompoundKeepTransforms(heap, compound, massCenter) ==
    CalculateInertia(heap, [compound EXCEPT !.m_MassCenter = massCenter])

\* CPhysCollide_Compound::SetMassCenter before it notifies: the center is set,
\* the origins of the child transforms are rewritten, the inertia is recalculated
MovedCompound(heap, compound, massCenter) ==
    CalculateInertia(heap,
        [compound EXCEPT
            !.m_MassCenter = massCenter,
            !.childOrigin = [i \in 1..Len(compound.children) |->
                RVSub(RV(GetOriginInCompound(heap[compound.children[i]])), massCenter)]])

\* CPhysCollide_Compound::SetMassCenter on compound 1
SetMassCenter(massCenter) ==
    /\ ~crashed
    /\ compounds' = [compounds EXCEPT ![1] = MovedCompound(convexes, @, massCenter)]
    /\ notified' = NotifyObjectsOfMassCenterChange(
                       MovedCompound(convexes, compounds[1], massCenter),
                       compounds[1].m_MassCenter)
    /\ crashed' = \E i \in 1..Len(ObjectList) : ObjectList[i] \notin Bodies
    /\ last' = [NoCall EXCEPT !.op = "SetMassCenter", !.listBefore = ObjectList,
                              !.massCenterBefore = compounds[1].m_MassCenter,
                              !.point = massCenter.n]
    /\ UNCHANGED <<convexes, m_BBoxCache, m_ObjectReferenceList, m_CollideObjectNext,
                   m_CollideObjectPrevious, initialList, attached, decodeVars, envVars>>

NextList ==
    \/ \E object \in Bodies : AddReferenceToCollide(object)
    \/ \E object \in Bodies : RemoveReferenceFromCollide(object)
    \/ \E massCenter \in MassCenters : SetMassCenter(massCenter)

SpecList == InitList /\ [][NextList]_vars

\* the number of NotifyMassCenterChanged calls made on the object
Notifications(object) ==
    Cardinality({i \in 1..Len(notified) : notified[i].object = object})

\* C3 (as claimed): SetMassCenter on a compound with n >= 0 attached bodies
\* calls NotifyMassCenterChanged exactly once on each attached body and on
\* nothing else, each time with the center of mass the compound had before the
\* call, and returns.
C3_NotifiesEachAttachedOnce ==
    last.op = "SetMassCenter" =>
        /\ ~crashed
        /\ \A object \in attached : Notifications(object) = 1
        /\ \A i \in 1..Len(notified) :
              /\ notified[i].object \in attached
              /\ notified[i].oldMassCenter = last.massCenterBefore

\* C6: when the list was empty (nullptr) at the start, then after any
\* sequence of attach and detach the head is nullptr exactly when no body is
\* attached, every attached body is met exactly once when walking from the
\* head, and a detach leaves the other bodies in the order they had.
C6_ReferenceListInvariant ==
    initialList = nullptr =>
        /\ ~crashed
        /\ (m_ObjectReferenceList = nullptr) <=> (attached = {})
        /\ Len(ObjectList) = Cardinality(attached)
        /\ {ObjectList[i] : i \in 1..Len(ObjectList)} = attached
        /\ last.op = "RemoveReferenceFromCollide" =>
               ObjectList = SelectSeq(last.listBefore, LAMBDA o : o # last.object)

\* C6 witness: a body that was neither the head nor the only one was detached
\* from a list of three
C6_Witness ==
    /\ initialList = nullptr
    /\ last.op = "RemoveReferenceFromCollide"
    /\ Len(last.listBefore) = 3
    /\ last.listBefore[2] = last.object
    /\ Len(ObjectList) = 2

(***************************************************************************)
(* VCollide import.  A buffer is a function from byte addresses to the     *)
(* structures that begin there; each field is the sequence of its bytes in *)
(* the order they lie in memory.  The host is little-endian.  A float is   *)
(* stood for by the 32-bit integer that has the same four bytes.  The      *)
(* fields that the decoder never reads (center, radius, box_sizes of a     *)
(* node; tri_index, pierce_index, opposite_index) are left out or zero.    *)
(***************************************************************************)
\* what a read outside the structures of the buffer gives
Wild == [kind |-> "wild"]

\* the structure of the given kind at the address, or Wild
Read(memory, address, kind) ==
    IF address \in DOMAIN memory
    THEN IF memory[address].kind = kind THEN memory[address] ELSE Wild
    ELSE Wild

\* offsets beyond this many bytes lead outside every buffer
AddressSpace == 65536

\* reinterpret_cast<const byte *>(address) + offset
ByteOffset(address, offset) ==
    IF address < 0 \/ offset > AddressSpace \/ offset < -AddressSpace THEN WildPointer
    ELSE address + offset

ReverseBytes(field) == [i \in 1..Len(field) |-> field[Len(field) + 1 - i]]

\* SwapBufferToTargetEndian with the byte swap left out: a plain copy
CopyBuffer(byteswap, input) == input

\* CByteswap::SwapBufferToTargetEndian on a structure with a byteswap data
\* description: the copy, with the bytes of every described field reversed when
\* swapping is active
SwapBufferToTargetEndian(byteswap, input) ==
    IF ~byteswap \/ input = Wild THEN input
    ELSE IF input.kind = "node"
    THEN [input EXCEPT !.offset_right_node = ReverseBytes(@),
                       !.offset_compact_ledge = ReverseBytes(@)]
    ELSE IF input.kind = "ledge"
    THEN [input EXCEPT !.c_point_offset = ReverseBytes(@),
                       !.client_data = ReverseBytes(@),
                       !.bf = ReverseBytes(@),
                       !.n_triangles = ReverseBytes(@),
                       !.for_future_use = ReverseBytes(@)]
    ELSE IF input.kind = "triangle"
    THEN [input EXCEPT !.bf = ReverseBytes(@),
                       !.c_three_edges = [e \in 1..3 |-> ReverseBytes(@[e])]]
    ELSE [input EXCEPT !.k = [i \in 1..3 |-> ReverseBytes(@[i])],
                       !.hesse_val = ReverseBytes(@)]

\* an int field as the host reads it
Int32(field) ==
    field[1] + 256 * field[2] + 65536 * field[3]
    + 16777216 * (IF field[4] >= 128 THEN field[4] - 256 ELSE field[4])

\* a short field as the host reads it
Int16(field) == field[1] + 256 * (IF field[2] >= 128 THEN field[2] - 256 ELSE field[2])

\* a float field as the host reads it
Float(field) == Int32(field)

\* VCollide_IVP_Compact_Ledge::size_div_16, the upper 24 bits of the bit-field
size_div_16(ledge) == ledge.bf[2] + 256 * ledge.bf[3] + 65536 * ledge.bf[4]

\* VCollide_IVP_Compact_Triangle::material_index, bits 24 to 30 of the bit-field
material_index(triangle) == triangle.bf[4] % 128

\* VCollide_IVP_Compact_Edge::start_point_index, the lower 16 bits of the bit-field
start_point_index(edge) == edge[1] + 256 * edge[2]

\* get_n_points with the "- 1" left out
get_n_points_with_header(ledge) == size_div_16(ledge) - Int16(ledge.n_triangles)

\* VCollide_IVP_Compact_Ledge::get_n_points
get_n_points(ledge) == size_div_16(ledge) - Int16(ledge.n_triangles) - 1

\* the point loop of CreateFromIVPCompactLedge from pointIndex on: the points,
\* up to the first one that lies outside the buffer
RECURSIVE PointLoop(_, _, _, _, _)
PointLoop(memory, ivpPoints, byteswap, pointCount, pointIndex) ==
    IF pointIndex >= pointCount THEN <<>>
    ELSE IF Read(memory, ByteOffset(ivpPoints, 16 * pointIndex), "point") = Wild THEN <<>>
    ELSE <<<<Float(SwapBufferToTargetEndian(byteswap,
                 Read(memory, ByteOffset(ivpPoints, 16 * pointIndex), "point")).k[1]),
             -Float(SwapBufferToTargetEndian(byteswap,
                 Read(memory, ByteOffset(ivpPoints, 16 * pointIndex), "point")).k[2]),
             -Float(SwapBufferToTargetEndian(byteswap,
                 Read(memory, ByteOffset(ivpPoints, 16 * pointIndex), "point")).k[3])>>>>
         \o PointLoop(memory, ivpPoints, byteswap, pointCount, pointIndex + 1)

\* the triangle loop of the hull constructor from triangleIndex on: the swapped
\* triangles, up to the first one that lies outside the buffer
RECURSIVE TriangleLoop(_, _, _, _, _)
TriangleLoop(memory, triangles, byteswap, triangleCount, triangleIndex) ==
    IF triangleIndex >= triangleCount THEN <<>>
    ELSE IF Read(memory, ByteOffset(triangles, 16 * triangleIndex), "triangle") = Wild
    THEN <<>>
    ELSE <<SwapBufferToTargetEndian(byteswap,
               Read(memory, ByteOffset(triangles, 16 * triangleIndex), "triangle"))>>
         \o TriangleLoop(memory, triangles, byteswap, triangleCount, triangleIndex + 1)

\* CPhysConvex_Hull::CalculateTrianglePlanes.  A plane is kept as the normal
\* before normalize() and v1.dot(normal) for it; the stored plane is both
\* divided by the normal's length, a NaN when that length is 0.
CalculateTrianglePlanes(hull) ==
    IF hull.m_TrianglePlanes # <<>> THEN hull
    ELSE [hull EXCEPT !.m_TrianglePlanes =
             [triangle \in 1..(Len(hull.m_TriangleIndices) \div 3) |->
                 [normal |-> Cross(HullPoint(hull, 3 * (triangle - 1) + 1),
                                   HullPoint(hull, 3 * (triangle - 1) + 2)),
                  w |-> Dot(HullPoint(hull, 3 * (triangle - 1)),
                            Cross(HullPoint(hull, 3 * (triangle - 1) + 1),
                                  HullPoint(hull, 3 * (triangle - 1) + 2)))]]]

\* the indices and the materials the hull constructor takes from the triangles
IndicesOf(swappedTriangles) ==
    [indexIndex \in 1..(3 * Len(swappedTriangles)) |->
        start_point_index(swappedTriangles[((indexIndex - 1) \div 3) + 1]
                              .c_three_edges[((indexIndex - 1) % 3) + 1])]

MaterialsOf(swappedTriangles) ==
    IF \E t \in 1..Len(swappedTriangles) : material_index(swappedTriangles[t]) > 0
    THEN [t \in 1..Len(swappedTriangles) |-> material_index(swappedTriangles[t])]
    ELSE <<>>

\* CPhysConvex_Hull::CPhysConvex_Hull(ledge, byteswap, ledgePoints,
\* ledgePointCount), all triangles read.  The user index is read from the
\* ledge in the buffer, not from the swapped copy.
HullOfLedge(memory, ledge, ledgePoints, swappedTriangles) ==
    IF MaterialsOf(swappedTriangles) = <<>>
    THEN [CPhysConvex_Hull(ledgePoints, IndicesOf(swappedTriangles))
             EXCEPT !.userIndex = Int32(Read(memory, ledge, "ledge").client_data)]
    ELSE CalculateTrianglePlanes(
             [CPhysConvex_Hull(ledgePoints, IndicesOf(swappedTriangles))
                 EXCEPT !.userIndex = Int32(Read(memory, ledge, "ledge").client_data),
                        !.m_TriangleMaterials = MaterialsOf(swappedTriangles)])

\* the outcome of a call that read outside the buffer
OutOfBuffer == [crashed |-> TRUE, hull |-> NoConvex]

\* CreateFromIVPCompactLedge after its two loops: the hull, unless one of the
\* loops left the buffer
LedgeHull(memory, ledge, swappedLedge, ledgePoints, swappedTriangles) ==
    IF Len(ledgePoints) < get_n_points(swappedLedge)
       \/ Len(swappedTriangles) < Int16(swappedLedge.n_triangles)
    THEN OutOfBuffer
    ELSE [crashed |-> FALSE,
          hull |-> HullOfLedge(memory, ledge, ledgePoints, swappedTriangles)]

\* CreateFromIVPCompactLedge once the ledge is swapped
SwappedLedgeHull(memory, ledge, byteswap, swappedLedge) ==
    IF get_n_points(swappedLedge) < 3 \/ Int16(swappedLedge.n_triangles) <= 0
    THEN [crashed |-> FALSE, hull |-> NoConvex]
    ELSE LedgeHull(memory, ledge, swappedLedge,
                   PointLoop(memory, ByteOffset(ledge, Int32(swappedLedge.c_point_offset)),
                             byteswap, get_n_points(swappedLedge), 0),
                   TriangleLoop(memory, ByteOffset(ledge, 16), byteswap,
                                Int16(swappedLedge.n_triangles), 0))

\* CPhysConvex_Hull::CreateFromIVPCompactLedge: the hull (NoConvex for nullptr),
\* or a crash when the ledge is not in the buffer
CreateFromIVPCompactLedge(memory, ledge, byteswap) ==
    IF Read(memory, ledge, "ledge") = Wild THEN OutOfBuffer
    ELSE SwappedLedgeHull(memory, ledge, byteswap,
                          SwapBufferToTargetEndian(byteswap, Read(memory, ledge, "ledge")))

\* the leaf branch of AddIVPCompactLedgetreeNode: convex is used without a test,
\* so that a nullptr from CreateFromIVPCompactLedge is dereferenced.  `crashed`
\* records that the behaviour became undefined (a null pointer dereferenced, a
\* read outside the buffer); what the process does from there on is not
\* determined, and the hulls of a crashed compound stand for nothing.
AddLeaf(compound, convex) ==
    IF convex.crashed \/ convex.hull = NoConvex THEN [compound EXCEPT !.crashed = TRUE]
    ELSE [compound EXCEPT
             !.hulls = Append(@, [convex.hull EXCEPT !.m_Owner = OWNER_COMPOUND])]

\* CPhysCollide_Compound::AddIVPCompactLedgetreeNode: the compound after the
\* call.  Nothing more is done once the process crashed; `stack` is the number
\* of calls the stack still has room for.
RECURSIVE AddIVPCompactLedgetreeNode(_, _, _, _, _)
AddIVPCompactLedgetreeNode(memory, node, byteswap, compound, stack) ==
    IF compound.crashed THEN compound
    ELSE IF stack = 0 \/ Read(memory, node, "node") = Wild
    THEN [compound EXCEPT !.crashed = TRUE]
    ELSE IF Int32(SwapBufferToTargetEndian(byteswap, Read(memory, node, "node"))
                      .offset_right_node) = 0
    THEN AddLeaf(compound,
                 CreateFromIVPCompactLedge(
                     memory,
                     ByteOffset(node, Int32(SwapBufferToTargetEndian(
                         byteswap, Read(memory, node, "node")).offset_compact_ledge)),
                     byteswap))
    ELSE AddIVPCompactLedgetreeNode(
             memory,
             ByteOffset(node, Int32(SwapBufferToTargetEndian(
                 byteswap, Read(memory, node, "node")).offset_right_node)),
             byteswap,
             AddIVPCompactLedgetreeNode(memory, ByteOffset(node, 28), byteswap, compound,
                                        stack - 1),
             stack - 1)

\* CPhysCollide_Compound::CPhysCollide_Compound(root, byteswap, massCenter,
\* inertia), the root at address 0
CPhysCollide_Compound_Ledgetree(memory, byteswap) ==
    AddIVPCompactLedgetreeNode(memory, 0, byteswap,
                               [loaded |-> TRUE, crashed |-> FALSE, hulls |-> <<>>],
                               Cardinality(DOMAIN memory))

\* the square of btFabs(plane.dot(point) - plane.getW()), as a numerator over a
\* denominator; the denominator 0 stands for a NaN
PlaneDistance2(plane, point) ==
    [n |-> (Dot(plane.normal, point) - plane.w) * (Dot(plane.normal, point) - plane.w),
     d |-> Dot(plane.normal, plane.normal)]

\* distance < closestTriangleDistance; a comparison with a NaN is false
DistanceLess(a, b) == a.d # 0 /\ b.d # 0 /\ a.n * b.d < b.n * a.d

\* the loop of GetTriangleMaterialIndex from triangleIndex on: closestTriangle
\* when the loop ends
RECURSIVE ClosestTriangleLoop(_, _, _, _)
ClosestTriangleLoop(hull, point, closestTriangle, triangleIndex) ==
    IF ~(Len(hull.m_TriangleMaterials) < triangleIndex) THEN closestTriangle
    ELSE IF DistanceLess(PlaneDistance2(hull.m_TrianglePlanes[triangleIndex + 1], point),
                         PlaneDistance2(hull.m_TrianglePlanes[closestTriangle + 1], point))
    THEN ClosestTriangleLoop(hull, point, triangleIndex, triangleIndex + 1)
    ELSE ClosestTriangleLoop(hull, point, closestTriangle, triangleIndex + 1)

\* CPhysConvex_Hull::GetTriangleMaterialIndex
GetTriangleMaterialIndex(hull, point) ==
    IF Len(hull.m_TriangleMaterials) = 0 THEN 0
    ELSE hull.m_TriangleMaterials[ClosestTriangleLoop(hull, point, 0, 1) + 1]

(***************************************************************************)
(* The buffers.  A ledge is given by the values of its header and by its   *)
(* points and triangles; a ledge tree by its ledge (a leaf) or by its two  *)
(* children.  The nodes lie in the buffer from address 0 on, each node     *)
(* followed by its left subtree and that by its right subtree; the ledges  *)
(* follow the nodes.                                                       *)
(***************************************************************************)
\* byte i of the two's complement of v, the lowest byte first
ByteOf(v, i) ==
    IF v >= 0 THEN (v \div (256 ^ (i - 1))) % 256
    ELSE 255 - (((-v - 1) \div (256 ^ (i - 1))) % 256)

\* the bytes of a field of `size` bytes that holds v, as they lie in a buffer of
\* the byte order
Field(v, size, order) ==
    IF order = "native" THEN [i \in 1..size |-> ByteOf(v, i)]
    ELSE [i \in 1..size |-> ByteOf(v, size + 1 - i)]

\* sizeof(VCollide_IVP_Compact_Ledge) + the triangles + the points
LedgeSize(ledge) == 16 * (1 + Len(ledge.triangles) + Len(ledge.points))

TriangleRecord(triangle, order) ==
    [kind |-> "triangle",
     bf |-> Field(16777216 * triangle.material, 4, order),
     c_three_edges |-> [e \in 1..3 |-> Field(triangle.indices[e], 4, order)]]

PointRecord(point, order) ==
    [kind |-> "point", k |-> [i \in 1..3 |-> Field(point[i], 4, order)],
     hesse_val |-> Field(0, 4, order)]

\* the ledge at the address: its header, its triangles, its points
LedgeRecords(ledge, address, order) ==
    (address :>
        [kind |-> "ledge",
         c_point_offset |-> Field(16 * (1 + Len(ledge.triangles)), 4, order),
         client_data |-> Field(ledge.client_data, 4, order),
         bf |-> Field(256 * ledge.size_div_16, 4, order),
         n_triangles |-> Field(ledge.n_triangles, 2, order),
         for_future_use |-> Field(0, 2, order)])
    @@ [a \in {address + 16 * t : t \in 1..Len(ledge.triangles)} |->
           TriangleRecord(ledge.triangles[(a - address) \div 16], order)]
    @@ [a \in {address + 16 * (Len(ledge.triangles) + p) : p \in 1..Len(ledge.points)} |->
           PointRecord(ledge.points[((a - address) \div 16) - Len(ledge.triangles)], order)]

IsLeaf(tree) == tree.children = <<>>

RECURSIVE NodeCount(_)
NodeCount(tree) ==
    IF IsLeaf(tree) THEN 1
    ELSE 1 + NodeCount(tree.children[1]) + NodeCount(tree.children[2])

RECURSIVE LedgesSize(_)
LedgesSize(tree) ==
    IF IsLeaf(tree) THEN LedgeSize(tree.ledge)
    ELSE LedgesSize(tree.children[1]) + LedgesSize(tree.children[2])

NodeRecord(offset_right_node, offset_compact_ledge, order) ==
    [kind |-> "node",
     offset_right_node |-> Field(offset_right_node, 4, order),
     offset_compact_ledge |-> Field(offset_compact_ledge, 4, order)]

\* the tree with its root at `node` and its ledges from `ledge` on
RECURSIVE TreeRecords(_, _, _, _)
TreeRecords(tree, node, ledge, order) ==
    IF IsLeaf(tree)
    THEN (node :> NodeRecord(0, ledge - node, order))
         @@ LedgeRecords(tree.ledge, ledge, order)
    ELSE (node :> NodeRecord(28 * (1 + NodeCount(tree.children[1])), 0, order))
         @@ TreeRecords(tree.children[1], node + 28, ledge, order)
         @@ TreeRecords(tree.children[2], node + 28 * (1 + NodeCount(tree.children[1])),
                        ledge + LedgesSize(tree.children[1]), order)

\* the buffer that holds the tree in the byte order
Buffer(tree, order) == TreeRecords(tree, 0, 28 * NodeCount(tree), order)

\* the ledges of the leaves, from left to right
RECURSIVE LeafLedges(_)
LeafLedges(tree) ==
    IF IsLeaf(tree) THEN <<tree.ledge>>
    ELSE LeafLedges(tree.children[1]) \o LeafLedges(tree.children[2])

\* the addresses of the ledges of the leaves in Buffer(tree, order), from left
\* to right
RECURSIVE LedgeAddresses(_, _)
LedgeAddresses(tree, ledge) ==
    IF IsLeaf(tree) THEN <<ledge>>
    ELSE LedgeAddresses(tree.children[1], ledge)
         \o LedgeAddresses(tree.children[2], ledge + LedgesSize(tree.children[1]))

(***************************************************************************)
(* Decoding VCollide buffers: the same ledge tree in a buffer of either    *)
(* byte order, the compound decoded from each, single ledges decoded by    *)
(* CreateFromIVPCompactLedge, and material queries on the decoded hulls.   *)
(***************************************************************************)
\* the points of a ledge, as the buffer holds them
LedgePoints == <<<<1, 1, 1>>, <<3, 1, 1>>, <<1, 3, 1>>, <<1, 1, 3>>>>

\* the material indices of the four triangles of a tetrahedron: no override,
\* overrides from the first triangle on, an override on the last triangle only
MaterialLists == {<<0, 0, 0, 0>>, <<1, 2, 0, 3>>, <<0, 0, 0, 5>>}

TetrahedronLedge(materials) ==
    [size_div_16 |-> 9, n_triangles |-> 4, points |-> LedgePoints,
     triangles |-> <<[indices |-> <<0, 2, 1>>, material |-> materials[1]],
                     [indices |-> <<0, 1, 3>>, material |-> materials[2]],
                     [indices |-> <<0, 3, 2>>, material |-> materials[3]],
                     [indices |-> <<1, 2, 3>>, material |-> materials[4]]>>,
     client_data |-> 258]

\* three points and one triangle: the least a ledge may have
TriangleLedge ==
    [size_div_16 |-> 5, n_triangles |-> 1, points |-> SubSeq(LedgePoints, 1, 3),
     triangles |-> <<[indices |-> <<0, 1, 2>>, material |-> 0]>>, client_data |-> 7]

\* two points only
TwoPointLedge ==
    [size_div_16 |-> 4, n_triangles |-> 1, points |-> SubSeq(LedgePoints, 1, 2),
     triangles |-> <<[indices |-> <<0, 1, 0>>, material |-> 0]>>, client_data |-> 0]

\* no triangle
NoTriangleLedge ==
    [size_div_16 |-> 4, n_triangles |-> 0, points |-> SubSeq(LedgePoints, 1, 3),
     triangles |-> <<>>, client_data |-> 0]

\* a negative triangle count
NegativeTriangleLedge ==
    [size_div_16 |-> 3, n_triangles |-> -1, points |-> SubSeq(LedgePoints, 1, 3),
     triangles |-> <<>>, client_data |-> 0]

Ledges ==
    {TetrahedronLedge(materials) : materials \in MaterialLists}
    \cup {TriangleLedge, TwoPointLedge, NoTriangleLedge, NegativeTriangleLedge}

Leaf(ledge) == [ledge |-> ledge, children |-> <<>>]

Node(left, right) == [ledge |-> NoLedge, children |-> <<left, right>>]

\* the ledges at the leaves of the trees with three leaves
DeepLedges == {TetrahedronLedge(<<1, 2, 0, 3>>), TriangleLedge, TwoPointLedge}

\* the ledge trees: one leaf, two leaves, three leaves in both shapes
LedgeTrees ==
    {Leaf(a) : a \in Ledges}
    \cup {Node(Leaf(a), Leaf(b)) : a \in Ledges, b \in Ledges}
    \cup {Node(Node(Leaf(a), Leaf(b)), Leaf(c)) :
              a \in DeepLedges, b \in DeepLedges, c \in DeepLedges}
    \cup {Node(Leaf(a), Node(Leaf(b), Leaf(c))) :
              a \in DeepLedges, b \in DeepLedges, c \in DeepLedges}

\* the points of the material queries
QueryPoints == {<<0, 0, 0>>, <<2, -2, -1>>, <<2, -1, -2>>, <<1, -2, -2>>, <<2, -2, -2>>}

InitDecode ==
    /\ convexes = <<>>
    /\ compounds = <<>>
    /\ m_BBoxCache = <<>>
    /\ last = NoCall
    /\ m_ObjectReferenceList = nullptr
    /\ initialList = nullptr
    /\ NoBodies
    /\ ledgetree \in LedgeTrees
    /\ collide = [order \in ByteOrders |-> NotLoaded]
    /\ NoEnvironment

\* the buffer of the byte order is loaded: CPhysCollide_Compound(root, byteswap,
\* massCenter, inertia), with byte swapping active for the foreign buffer
CompoundFromLedgetree(order) ==
    /\ ~collide[order].loaded
    /\ collide' = [collide EXCEPT ![order] =
           CPhysCollide_Compound_Ledgetree(Buffer(ledgetree, order), order = "foreign")]
    /\ last' = [NoCall EXCEPT !.op = "CPhysCollide_Compound", !.order = order]
    /\ UNCHANGED <<collideVars, listVars, ledgetree, envVars>>

\* the state after a call of CreateFromIVPCompactLedge that ended with convex
ReturnLedgeHull(order, leaf, convex) ==
    /\ last' = [NoCall EXCEPT !.op = "CreateFromIVPCompactLedge", !.order = order,
                              !.leaf = leaf, !.result = convex.hull,
                              !.crashed = convex.crashed]
    /\ UNCHANGED <<collideVars, listVars, decodeVars, envVars>>

\* CreateFromIVPCompactLedge on the ledge of a leaf in the buffer of the byte
\* order
HullFromLedge(order, leaf) ==
    /\ leaf \in 1..Len(LeafLedges(ledgetree))
    /\ ReturnLedgeHull(order, leaf,
           CreateFromIVPCompactLedge(
               Buffer(ledgetree, order),
               LedgeAddresses(ledgetree, 28 * NodeCount(ledgetree))[leaf],
               order = "foreign"))

\* GetTriangleMaterialIndex(point) on a hull of a decoded compound
TriangleMaterialIndex(order, convex, point) ==
    /\ collide[order].loaded
    /\ ~collide[order].crashed
    /\ convex \in 1..Len(collide[order].hulls)
    /\ last' = [NoCall EXCEPT
                    !.op = "GetTriangleMaterialIndex", !.order = order,
                    !.convex = convex, !.point = point,
                    !.result = GetTriangleMaterialIndex(collide[order].hulls[convex], point)]
    /\ UNCHANGED <<collideVars, listVars, decodeVars, envVars>>

NextDecode ==
    \/ \E order \in ByteOrders : CompoundFromLedgetree(order)
    \/ \E order \in ByteOrders, leaf \in 1..3 : HullFromLedge(order, leaf)
    \/ \E order \in ByteOrders, convex \in 1..3, point \in QueryPoints :
           TriangleMaterialIndex(order, convex, point)

SpecDecode == InitDecode /\ [][NextDecode]_vars

(***************************************************************************)
(* Claims about decoding                                                   *)
(***************************************************************************)
\* the triangles of the hull with no triangle nearer to the point, by the
\* planes the hull has stored
NearestTriangles(hull, point) ==
    {t \in 1..Len(hull.m_TrianglePlanes) :
        /\ PlaneDistance2(hull.m_TrianglePlanes[t], point).d # 0
        /\ \A u \in 1..Len(hull.m_TrianglePlanes) :
              ~DistanceLess(PlaneDistance2(hull.m_TrianglePlanes[u], point),
                            PlaneDistance2(hull.m_TrianglePlanes[t], point))}

\* C4 (as claimed): GetTriangleMaterialIndex(point) on a hull with a material
\* override returns the material of a triangle whose plane is nearest to the
\* point among all triangles of the hull; on a hull without override it
\* returns 0.
C4_NearestTriangleMaterial ==
    last.op = "GetTriangleMaterialIndex" =>
        IF collide[last.order].hulls[last.convex].m_TriangleMaterials = <<>>
        THEN last.result = 0
        ELSE \E t \in NearestTriangles(collide[last.order].hulls[last.convex], last.point) :
                 last.result = collide[last.order].hulls[last.convex].m_TriangleMaterials[t]

\* what decoding gave: whether it ended, and if it did, of every hull the
\* points, the triangle indices and the materials
Geometry(decoded) ==
    IF decoded.crashed THEN [crashed |-> TRUE, hulls |-> <<>>]
    ELSE
    [crashed |-> FALSE,
     hulls |-> [i \in 1..Len(decoded.hulls) |->
                   [points |-> decoded.hulls[i].points,
                    m_TriangleIndices |-> decoded.hulls[i].m_TriangleIndices,
                    m_TriangleMaterials |-> decoded.hulls[i].m_TriangleMaterials]]]

\* C7: decoding the foreign-byte-order buffer of a ledge tree (swap enabled)
\* gives the same points, triangle indices and materials, in the same order,
\* as decoding its native-byte-order buffer (swap disabled).
C7_ByteOrderIndependence ==
    (collide["native"].loaded /\ collide["foreign"].loaded)
    => Geometry(collide["native"]) = Geometry(collide["foreign"])

\* C7 witness: both buffers of a tree with at least two leaves were decoded to
\* the end, and a hull has materials
C7_Witness ==
    /\ \A order \in ByteOrders : collide[order].loaded /\ ~collide[order].crashed
    /\ Len(collide["foreign"].hulls) >= 2
    /\ \E i \in 1..Len(collide["foreign"].hulls) :
          collide["foreign"].hulls[i].m_TriangleMaterials # <<>>

\* the materials a hull of the ledge has
LedgeMaterials(ledge) ==
    IF \E t \in 1..Len(ledge.triangles) : ledge.triangles[t].material > 0
    THEN [t \in 1..Len(ledge.triangles) |-> ledge.triangles[t].material]
    ELSE <<>>

\* the hull is the hull of the ledge: its points with y and z negated, the
\* start points of its triangles' edges, its materials
IsHullOf(hull, ledge) ==
    /\ hull.points = [p \in 1..Len(ledge.points) |->
                         <<ledge.points[p][1], -ledge.points[p][2], -ledge.points[p][3]>>]
    /\ hull.m_TriangleIndices =
           [i \in 1..(3 * Len(ledge.triangles)) |->
               ledge.triangles[((i - 1) \div 3) + 1].indices[((i - 1) % 3) + 1]]
    /\ hull.m_TriangleMaterials = LedgeMaterials(ledge)

\* C8 (as claimed): decoding a buffer whose nodes form a finite binary tree
\* ends and leaves the compound with exactly one hull per leaf, the hulls in
\* the order of the leaves from left to right.
C8_OneHullPerLeafInOrder ==
    \A order \in ByteOrders :
        collide[order].loaded =>
            /\ ~collide[order].crashed
            /\ Len(collide[order].hulls) = Len(LeafLedges(ledgetree))
            /\ \A i \in 1..Len(collide[order].hulls) :
                  IsHullOf(collide[order].hulls[i], LeafLedges(ledgetree)[i])

\* the ledge the last call of CreateFromIVPCompactLedge decoded
LastLedge == LeafLedges(ledgetree)[last.leaf]

\* C9: CreateFromIVPCompactLedge returns no hull when size_div_16 -
\* n_triangles - 1 is below 3 or n_triangles is <= 0; otherwise it returns a
\* hull with exactly that many points and n_triangles triangles of 3 indices.
C9_LedgeDecodeFailure ==
    last.op = "CreateFromIVPCompactLedge" =>
        /\ ~last.crashed
        /\ IF LastLedge.size_div_16 - LastLedge.n_triangles - 1 < 3
              \/ LastLedge.n_triangles <= 0
           THEN last.result = NoConvex
           ELSE /\ last.result # NoConvex
                /\ Len(last.result.points)
                       = LastLedge.size_div_16 - LastLedge.n_triangles - 1
                /\ Len(last.result.m_TriangleIndices) = 3 * LastLedge.n_triangles

\* C9 witness: a ledge with three points and a negative triangle count, in the
\* foreign byte order, gave no hull
C9_Witness ==
    /\ last.op = "CreateFromIVPCompactLedge"
    /\ last.order = "foreign"
    /\ LastLedge.size_div_16 - LastLedge.n_triangles - 1 >= 3
    /\ LastLedge.n_triangles < 0
    /\ last.result = NoConvex

(***************************************************************************)
(* Compounds of two boxes that lie symmetrically about the origin.  The    *)
(* boxes are cubes of half-extent 1 (the unit of length is free), made by  *)
(* BBoxToConvex and handed to ConvertConvexToCollide.                      *)
(***************************************************************************)
\* the offsets d of the boxes
SymmetricOffsets == {<<4, 0, 0>>, <<8, 6, 2>>}

\* the requests for the cubes at +d and -d
SymmetricBoxRequests ==
    {[mins |-> [c \in Axis |-> s * d[c] - 1], maxs |-> [c \in Axis |-> s * d[c] + 1]] :
        s \in {-1, 1}, d \in SymmetricOffsets}

\* the arrays of two convexes
ConvexPairs == {pConvex \in ConvexLists : Len(pConvex) = 2}

NextSymmetric ==
    \/ \E r \in SymmetricBoxRequests : BBoxToConvex(r.mins, r.maxs)
    \/ \E pConvex \in ConvexPairs : ConvertConvexToCollide(pConvex)

SpecSymmetric == Init /\ [][NextSymmetric]_vars

\* compound k is made of two boxes of equal half-extents at origins +d and -d,
\* d not zero
IsSymmetricPair(k) ==
    /\ ChildCount(k) = 2
    /\ Child(k, 1).type = "box" /\ Child(k, 2).type = "box"
    /\ Child(k, 1).halfExtents = Child(k, 2).halfExtents
    /\ Child(k, 1).m_Origin = VScale(-1, Child(k, 2).m_Origin)
    /\ Child(k, 1).m_Origin # VZero

\* twelve times component c of the inertia of the box of half-extents h:
\* the squares of the two other extents
TwelveBoxInertia(h, c) ==
    SeqSum([a \in Axis |-> IF a = c THEN 0 ELSE (2 * h[a]) * (2 * h[a])])

\* component c of the parallel-axis correction for the offset d
ParallelAxis(d, c) == SeqSum([a \in Axis |-> IF a = c THEN 0 ELSE d[a] * d[a]])

\* C11 (as claimed): the compound of two unit boxes at +d and -d has its center
\* of mass at the origin and an inertia of 2x one box's inertia plus the
\* parallel-axis correction for both offsets.
C11_SymmetricPairTwiceBoxInertia ==
    \A k \in 1..Len(compounds) :
        IsSymmetricPair(k) =>
            /\ compounds[k].m_MassCenter = RV(VZero)
            /\ compounds[k].m_Inertia.d > 0
            /\ \A c \in Axis :
                  12 * compounds[k].m_Inertia.n[c]
                      = compounds[k].m_Inertia.d
                            * (2 * TwelveBoxInertia(Child(k, 1).halfExtents, c)
                               + 12 * (ParallelAxis(Child(k, 1).m_Origin, c)
                                       + ParallelAxis(Child(k, 2).m_Origin, c)))

\* C11 (amended): the compound of two unit boxes at +d and -d has its center of
\* mass at the origin and, the inertia being normalized by the total volume,
\* an inertia of one box's inertia plus the parallel-axis correction for d.
C11_SymmetricPairInertia ==
    \A k \in 1..Len(compounds) :
        IsSymmetricPair(k) =>
            /\ compounds[k].m_MassCenter = RV(VZero)
            /\ compounds[k].m_Inertia.d > 0
            /\ \A c \in Axis :
                  12 * compounds[k].m_Inertia.n[c]
                      = compounds[k].m_Inertia.d
                            * (TwelveBoxInertia(Child(k, 1).halfExtents, c)
                               + 12 * ParallelAxis(Child(k, 1).m_Origin, c))

\* C11 witness: a compound of the two cubes at (8, 6, 2) and (-8, -6, -2)
C11_Witness ==
    \E k \in 1..Len(compounds) :
        IsSymmetricPair(k) /\ Child(k, 1).m_Origin \in {<<8, 6, 2>>, <<-8, -6, -2>>}

(***************************************************************************)
(* Solids: hulls made from the eight corners of a box, box convexes, and   *)
(* the queries GetVolume, GetMassCenter, GetInertia, GetSurfaceArea.       *)
(* Areas are counted in halves of a square unit.                           *)
(***************************************************************************)
\* the boxes: the unit cube, a cube of side 2 off the origin, a box of three
\* different sides
SolidBoxes ==
    {[mins |-> <<0, 0, 0>>, maxs |-> <<1, 1, 1>>],
     [mins |-> <<-2, 4, 2>>, maxs |-> <<0, 6, 4>>],
     [mins |-> <<0, 0, 0>>, maxs |-> <<2, 4, 6>>]}

\* the eight corners of the box, corner v + 1 at maxs on the axes whose bit
\* is set in v
Corners(mins, maxs) ==
    [v \in 1..8 |->
        <<IF ((v - 1) % 2) = 1 THEN maxs[1] ELSE mins[1],
          IF (((v - 1) \div 2) % 2) = 1 THEN maxs[2] ELSE mins[2],
          IF (((v - 1) \div 4) % 2) = 1 THEN maxs[3] ELSE mins[3]>>]

\* the twelve triangles of the box on those corners, two per face
BoxTriangles ==
    <<0, 4, 6, 0, 6, 2,   1, 3, 7, 1, 7, 5,
      0, 1, 5, 0, 5, 4,   2, 6, 7, 2, 7, 3,
      0, 2, 3, 0, 3, 1,   4, 5, 7, 4, 7, 6>>

\* HullLibrary::CreateConvexHull with QF_TRIANGLES (Bullet) for the corners of
\* a box: the twelve triangles, in an order that starts with triangle `first`
CreateConvexHullOfBox(points, first) ==
    [hullError |-> QE_OK, mNumFaces |-> 12, m_OutputVertices |-> points,
     m_Indices |-> [i \in 1..36 |-> BoxTriangles[((i - 1 + 3 * first) % 36) + 1]]]

\* CPhysicsCollision::ConvexFromVerts on the corners of a box
ConvexFromCorners(mins, maxs, first) ==
    HullFromUnorderedPoints("ConvexFromVerts", Corners(mins, maxs),
                            CreateConvexHullOfBox(Corners(mins, maxs), first))

\* the convex after a query that calculates the volume properties of a hull
AfterQuery(convex) ==
    IF convex.type = "hull" THEN CalculateVolumeProperties(convex) ELSE convex

\* CPhysConvex::GetVolume on a convex the caller holds
QueryVolume(pConvex) ==
    /\ convexes' = [convexes EXCEPT ![pConvex] = AfterQuery(@)]
    /\ last' = [NoCall EXCEPT !.op = "GetVolume", !.pConvex = <<pConvex>>,
                              !.result = GetVolume(convexes[pConvex])]
    /\ UNCHANGED <<compounds, m_BBoxCache>>
    /\ UNCHANGED <<listVars, decodeVars, envVars>>

\* CPhysConvex::GetMassCenter
QueryMassCenter(pConvex) ==
    /\ convexes' = [convexes EXCEPT ![pConvex] = AfterQuery(@)]
    /\ last' = [NoCall EXCEPT !.op = "GetMassCenter", !.pConvex = <<pConvex>>,
                              !.result = GetMassCenter(convexes[pConvex])]
    /\ UNCHANGED <<compounds, m_BBoxCache>>
    /\ UNCHANGED <<listVars, decodeVars, envVars>>

\* CPhysConvex::GetInertia
QueryInertia(pConvex) ==
    /\ convexes' = [convexes EXCEPT ![pConvex] = AfterQuery(@)]
    /\ last' = [NoCall EXCEPT !.op = "GetInertia", !.pConvex = <<pConvex>>,
                              !.result = GetInertia(convexes[pConvex])]
    /\ UNCHANGED <<compounds, m_BBoxCache>>
    /\ UNCHANGED <<listVars, decodeVars, envVars>>

\* btSqrt on the squares that occur: the root of n (rounded down otherwise)
Sqrt(n) == CHOOSE r \in 0..n : r * r <= n /\ (r + 1) * (r + 1) > n

\* the loop of CPhysConvex_Hull::GetSurfaceArea: the sum of the lengths of the
\* cross products over the triangles from indexIndex on
RECURSIVE AreaLoop(_, _)
AreaLoop(hull, indexIndex) ==
    IF indexIndex >= Len(hull.m_TriangleIndices) THEN 0
    ELSE Sqrt(Dot(Cross(VSub(HullPoint(hull, indexIndex + 1), HullPoint(hull, indexIndex)),
                        VSub(HullPoint(hull, indexIndex + 2), HullPoint(hull, indexIndex))),
                  Cross(VSub(HullPoint(hull, indexIndex + 1), HullPoint(hull, indexIndex)),
                        VSub(HullPoint(hull, indexIndex + 2), HullPoint(hull, indexIndex)))))
         + AreaLoop(hull, indexIndex + 3)

\* CPhysConvex_Hull::GetSurfaceArea, in halves of a square unit
Hull_GetSurfaceArea(hull) == AreaLoop(hull, 0)

\* a box area that counts every pair of half-extents alike
Box_AreaOfSixFaces(box) ==
    2 * 8 * (box.halfExtents[1] * box.halfExtents[2]
             + box.halfExtents[1] * box.halfExtents[3]
             + box.halfExtents[2] * box.halfExtents[3])

\* CPhysConvex_Box::GetSurfaceArea, in halves of a square unit
Box_GetSurfaceArea(box) ==
    2 * (8 * box.halfExtents[1] * box.halfExtents[2]
         + 4 * box.halfExtents[3] * (box.halfExtents[1] + box.halfExtents[2]))

\* CPhysConvex_Hull::GetSurfaceArea / CPhysConvex_Box::GetSurfaceArea
GetSurfaceArea(convex) ==
    IF convex.type = "box" THEN Box_GetSurfaceArea(convex) ELSE Hull_GetSurfaceArea(convex)

\* CPhysConvex::GetSurfaceArea on a convex the caller holds
QuerySurfaceArea(pConvex) ==
    /\ last' = [NoCall EXCEPT !.op = "GetSurfaceArea", !.pConvex = <<pConvex>>,
                              !.result = GetSurfaceArea(convexes[pConvex])]
    /\ UNCHANGED <<collideVars, listVars, decodeVars, envVars>>

\* the boxes BBoxToConvex is asked for: those with corners on even coordinates
SolidBoxRequests ==
    {r \in SolidBoxes : \A c \in Axis : r.mins[c] % 2 = 0 /\ r.maxs[c] % 2 = 0}

NextSolid ==
    \/ \E r \in SolidBoxes, first \in 0..11 : ConvexFromCorners(r.mins, r.maxs, first)
    \/ \E op \in {"ConvexFromVerts", "ConvexFromConvexPolyhedron"}, points \in PointLists :
           \E hull \in HullResults(points) : HullFromUnorderedPoints(op, points, hull)
    \/ \E r \in SolidBoxRequests : BBoxToConvex(r.mins, r.maxs)
    \/ \E pConvex \in 1..Len(convexes) : QueryVolume(pConvex)
    \/ \E pConvex \in 1..Len(convexes) : QueryMassCenter(pConvex)
    \/ \E pConvex \in 1..Len(convexes) : QueryInertia(pConvex)
    \/ \E pConvex \in 1..Len(convexes) : QuerySurfaceArea(pConvex)

SpecSolid == Init /\ [][NextSolid]_vars

\* the convex is a hull on the eight corners of a cube of the side
IsCubeHull(convex, side) ==
    /\ convex.type = "hull"
    /\ Len(convex.points) = 8
    /\ Len(convex.m_TriangleIndices) = 36
    /\ convex.points = Corners(convex.points[1], [c \in Axis |-> convex.points[1][c] + side])

\* C12: for a cube hull of side s (8 vertices, 12 triangles, whichever triangle
\* comes first) the queries give the volume s^3 (6 s^3 sixths), the center of
\* the cube as center of mass, and the inertia of a box of side s,
\* (1/12)(s^2 + s^2) on every axis: 1, the center and 1/6 for the unit cube.
C12_CubeHullVolumeProperties ==
    \A side \in 1..2 :
        (/\ last.op \in {"GetVolume", "GetMassCenter", "GetInertia"}
         /\ IsCubeHull(convexes[last.pConvex[1]], side))
        => /\ last.op = "GetVolume" => last.result = 6 * side * side * side
           /\ last.op = "GetMassCenter" =>
                 /\ last.result.d > 0
                 /\ \A c \in Axis :
                       2 * last.result.n[c]
                           = last.result.d * (2 * convexes[last.pConvex[1]].points[1][c] + side)
           /\ last.op = "GetInertia" =>
                 /\ last.result.d > 0
                 /\ \A c \in Axis : 12 * last.result.n[c] = last.result.d * 2 * side * side
           /\ convexes[last.pConvex[1]].m_Volume = 6 * side * side * side

\* C12 witness: the inertia of a unit cube hull whose first triangle is not on
\* a face through the first corner was asked for
C12_Witness ==
    /\ last.op = "GetInertia"
    /\ IsCubeHull(convexes[last.pConvex[1]], 1)
    /\ convexes[last.pConvex[1]].m_TriangleIndices[1] # 0
    /\ last.result = [n |-> <<1, 1, 1>>, d |-> 6]

CacheEntriesKept ==
    /\ Len(m_BBoxCache') >= Len(m_BBoxCache)
    /\ \A i \in 1..Len(m_BBoxCache) :
          /\ m_BBoxCache'[i] = m_BBoxCache[i]
          /\ compounds'[m_BBoxCache[i]].children = compounds[m_BBoxCache[i]].children
          /\ CachedBox(m_BBoxCache[i])'.halfExtents = CachedBox(m_BBoxCache[i]).halfExtents
          /\ CachedBox(m_BBoxCache[i])'.m_Origin = CachedBox(m_BBoxCache[i]).m_Origin

\* the last box request, if it had mins # maxs and was not within the tolerance
\* of any cached box, appended exactly one entry: a compound of exactly one box
\* tagged OWNER_INTERNAL
MissAppendedOneBox ==
    (/\ IsBoxRequest
     /\ last.mins # last.maxs
     /\ \A k \in CachedBefore : ~WithinTolerance(CachedBox(k)))
    => /\ Len(m_BBoxCache) = Len(last.cacheBefore) + 1
       /\ SubSeq(m_BBoxCache, 1, Len(last.cacheBefore)) = last.cacheBefore
       /\ m_BBoxCache[Len(m_BBoxCache)] \notin CachedBefore
       /\ Len(compounds[m_BBoxCache[Len(m_BBoxCache)]].children) = 1
       /\ CachedBox(m_BBoxCache[Len(m_BBoxCache)]).type = "box"
       /\ CachedBox(m_BBoxCache[Len(m_BBoxCache)]).m_Owner = OWNER_INTERNAL

\* C14 (as claimed, for requests with mins # maxs): the box cache only grows:
\* every step keeps each cached compound at its position with its half-extents
\* and origin, and a request that matches no cached box appends exactly one
\* entry, a compound of exactly one box primitive tagged OwnedInternally.
C14_BoxCacheOnlyGrows == [][CacheEntriesKept /\ MissAppendedOneBox']_vars

(***************************************************************************)
(* Mass-center consistency                                                 *)
(***************************************************************************)
\* the origins of the child transforms of the compound are the children's
\* origins in the compound minus the compound's center of mass
OffsetsConsistent(compound) ==
    /\ Len(compound.childOrigin) = Len(compound.children)
    /\ \A i \in 1..Len(compound.children) :
          /\ compound.childOrigin[i].d > 0
          /\ \A c \in Axis :
                compound.childOrigin[i].n[c] * compound.m_MassCenter.d
                    = compound.childOrigin[i].d
                          * (GetOriginInCompound(convexes[compound.children[i]])[c]
                                 * compound.m_MassCenter.d
                             - compound.m_MassCenter.n[c])

\* C15: after construction and after every SetMassCenter(c) each child's local
\* offset is its origin in the compound minus the compound's current center of
\* mass; and every body SetMassCenter(c) notifies finds the compound with the
\* center c, the offsets rewritten and the inertia recalculated from them.
C15_MassCenterConsistency ==
    /\ \A k \in 1..Len(compounds) : OffsetsConsistent(compounds[k])
    /\ last.op = "SetMassCenter" =>
          /\ compounds[1].m_MassCenter = RV(last.point)
          /\ \A i \in 1..Len(notified) :
                /\ notified[i].collide.m_MassCenter = RV(last.point)
                /\ OffsetsConsistent(notified[i].collide)
                /\ notified[i].collide.m_Inertia
                       = CalculateInertia(convexes, notified[i].collide).m_Inertia
                /\ notified[i].collide = compounds[1]

\* C15 witness: the center of mass was moved away from where it was, with two
\* bodies attached that were both notified
C15_Witness ==
    /\ last.op = "SetMassCenter"
    /\ ~crashed
    /\ RV(last.point) # last.massCenterBefore
    /\ last.point # VZero
    /\ Len(notified) = 2

(***************************************************************************)
(* More claims about decoding                                              *)
(***************************************************************************)
\* the ledge decodes: it has at least 3 points and at least one triangle
LedgeDecodes(ledge) ==
    ledge.size_div_16 - ledge.n_triangles - 1 >= 3 /\ ledge.n_triangles > 0

\* the leaves of the tree whose ledges decode
DecodingLeaves ==
    {i \in 1..Len(LeafLedges(ledgetree)) : LedgeDecodes(LeafLedges(ledgetree)[i])}

\* C16 (as claimed): decoding a tree in which the ledge of some leaf does not
\* decode never uses the absent hull: no null pointer is dereferenced, and the
\* compound ends with the hulls of the leaves that do decode.
C16_AbsentHullNeverUsed ==
    \A order \in ByteOrders :
        (collide[order].loaded /\ DecodingLeaves # DOMAIN LeafLedges(ledgetree))
        => /\ ~collide[order].crashed
           /\ Len(collide[order].hulls) = Cardinality(DecodingLeaves)

(***************************************************************************)
(* Compounds of zero volume                                                *)
(***************************************************************************)
\* the inertia of the box around the children of the compound
InertiaOfBounds(aabb) ==
    OffsetInertia(BoxInertia(RVSub(aabb.max, aabb.min)),
                  RVDiv(RVAdd(aabb.min, aabb.max), 2), TRUE)

\* C17 (as claimed): a compound whose total volume is zero has a finite
\* inertia, the one of the box approximation of its bounds; the inertia is
\* never the result of a division by a zero volume.
C17_ZeroVolumeInertiaFinite ==
    \A k \in 1..Len(compounds) :
        Compound_GetVolume(convexes, compounds[k]) = 0
        => /\ RVFinite(compounds[k].m_Inertia)
           /\ compounds[k].m_Inertia
                  = InertiaOfBounds(Compound_getAabb(convexes, compounds[k]))

\* the game index of every hull of a decoded compound
GameIndices(decoded) ==
    [i \in 1..Len(decoded.hulls) |-> decoded.hulls[i].userIndex]

\* C18 (as claimed): no value read from an unswapped field of the buffer
\* reaches the decoded result: the game index of every hull is the client
\* data of its ledge, the same for both byte orders of the buffer.
C18_GameIndexFromSwappedCopy ==
    \A order \in ByteOrders :
        (collide[order].loaded /\ ~collide[order].crashed)
        => GameIndices(collide[order])
               = [i \in 1..Len(LeafLedges(ledgetree)) |->
                     LeafLedges(ledgetree)[i].client_data]

(***************************************************************************)
(* Malformed VCollide buffers: the buffer of a well-formed tree of two     *)
(* leaves (root at 0, leaf nodes at 28 and 56, ledges from 84 on) in which *)
(* one offset or count field was overwritten.                              *)
(***************************************************************************)
\* offset_right_node, offset_compact_ledge, c_point_offset that lead far
\* beyond the end of every buffer used here
OffsetOutside == 4096

\* the ledges of malformed buffers: all of them decode when left intact
SoundLedges == {TetrahedronLedge(materials) : materials \in MaterialLists} \cup {TriangleLedge}

MalformedTrees ==
    {Node(Leaf(a), Leaf(b)) : a \in {TetrahedronLedge(<<1, 2, 0, 3>>), TriangleLedge},
                              b \in SoundLedges}

\* the address of the last ledge of the buffer; its points end the buffer
LastLedgeAddress(tree) == LedgeAddresses(tree, 28 * NodeCount(tree))[2]

\* the fields that may be overwritten: the right-child offset of the root
\* (outside the buffer), the right-child offset of the left leaf (back to the
\* root: a cycle), the ledge offset of the right leaf, the point offset of the
\* last ledge, and the size of the last ledge (8 points more than the buffer
\* holds)
Damages(tree) ==
    {[address |-> 0, field |-> "offset_right_node", value |-> OffsetOutside],
     [address |-> 0, field |-> "offset_right_node", value |-> -OffsetOutside],
     [address |-> 28, field |-> "offset_right_node", value |-> -28],
     [address |-> 56, field |-> "offset_compact_ledge", value |-> OffsetOutside],
     [address |-> LastLedgeAddress(tree), field |-> "c_point_offset", value |-> OffsetOutside],
     [address |-> LastLedgeAddress(tree), field |-> "bf",
      value |-> 256 * (tree.children[2].ledge.size_div_16 + 8)]}

\* the buffer of the tree with the field overwritten, in the byte order
DamagedBuffer(tree, order, damage) ==
    IF damage = NoDamage THEN Buffer(tree, order)
    ELSE [Buffer(tree, order) EXCEPT
             ![damage.address] = [@ EXCEPT ![damage.field] = Field(damage.value, 4, order)]]

InitMalformed ==
    /\ convexes = <<>>
    /\ compounds = <<>>
    /\ m_BBoxCache = <<>>
    /\ last = NoCall
    /\ m_ObjectReferenceList = nullptr
    /\ initialList = nullptr
    /\ NoBodies
    /\ ledgetree \in MalformedTrees
    /\ collide = [order \in ByteOrders |-> NotLoaded]
    /\ NoEnvironment

\* CPhysCollide_Compound(root, byteswap, massCenter, inertia) on the buffer
\* with the field overwritten
CompoundFromDamagedBuffer(order, damage) ==
    /\ ~collide[order].loaded
    /\ collide' = [collide EXCEPT ![order] =
           CPhysCollide_Compound_Ledgetree(DamagedBuffer(ledgetree, order, damage),
                                           order = "foreign")]
    /\ last' = [NoCall EXCEPT !.op = "CPhysCollide_Compound", !.order = order,
                              !.damage = damage]
    /\ UNCHANGED <<collideVars, listVars, ledgetree, envVars>>

\* CreateFromIVPCompactLedge on the last ledge of the buffer with the field
\* overwritten
HullFromDamagedLedge(order, damage) ==
    /\ last' = [NoCall EXCEPT
                    !.op = "CreateFromIVPCompactLedge", !.order = order, !.leaf = 2,
                    !.damage = damage,
                    !.result = CreateFromIVPCompactLedge(
                                   DamagedBuffer(ledgetree, order, damage),
                                   LastLedgeAddress(ledgetree), order = "foreign").hull,
                    !.crashed = CreateFromIVPCompactLedge(
                                    DamagedBuffer(ledgetree, order, damage),
                                    LastLedgeAddress(ledgetree), order = "foreign").crashed]
    /\ UNCHANGED <<collideVars, listVars, decodeVars, envVars>>

NextMalformed ==
    \/ \E order \in ByteOrders, damage \in Damages(ledgetree) \cup {NoDamage} :
           CompoundFromDamagedBuffer(order, damage)
    \/ \E order \in ByteOrders, damage \in Damages(ledgetree) \cup {NoDamage} :
           HullFromDamagedLedge(order, damage)

SpecMalformed == InitMalformed /\ [][NextMalformed]_vars

\* the call read outside the buffer, or recursed until the stack was used up
LeftBuffer ==
    \/ last.op = "CPhysCollide_Compound" /\ collide[last.order].crashed
    \/ last.op = "CreateFromIVPCompactLedge" /\ last.crashed

\* C19 (as claimed): decoding a buffer in which an offset or a count leads
\* outside the buffer, or in which the offsets form a cycle, reads no address
\* outside the buffer and does not recurse without end.
C19_DecodeStaysInBuffer ==
    last.damage # NoDamage => ~LeftBuffer

\* an intact buffer is decoded within its bounds
IntactDecodeStaysInBuffer ==
    (last.op # "none" /\ last.damage = NoDamage) => ~LeftBuffer

\* the hull ConvexFromVerts builds on the eight corners of the box
HullOnCornersOf(box) ==
    CreateFromHullResult(
        Corners(VSub(box.m_Origin, box.halfExtents), VAdd(box.m_Origin, box.halfExtents)),
        CreateConvexHullOfBox(
            Corners(VSub(box.m_Origin, box.halfExtents), VAdd(box.m_Origin, box.halfExtents)),
            0))

\* C20 (as claimed): the surface area of a box primitive with half-extents
\* (hx, hy, hz) is the area of its six faces, 8 * (hx*hy + hx*hz + hy*hz), and
\* equals the triangle-area sum of a hull built on the box's 8 corners.
C20_BoxSurfaceArea ==
    (last.op = "GetSurfaceArea" /\ convexes[last.pConvex[1]].type = "box")
    => /\ last.result = Box_AreaOfSixFaces(convexes[last.pConvex[1]])
       /\ last.result = Hull_GetSurfaceArea(HullOnCornersOf(convexes[last.pConvex[1]]))

(***************************************************************************)
(* Game data of primitives                                                 *)
(***************************************************************************)
\* the values the game passes as gameData
GameData == {0, 5}

\* CPhysicsCollision::SetConvexGameData
SetConvexGameData(pConvex, gameData) ==
    /\ ~convexes[pConvex].deleted
    /\ convexes' = [convexes EXCEPT ![pConvex].userIndex = gameData]
    /\ last' = [NoCall EXCEPT !.op = "SetConvexGameData", !.pConvex = <<pConvex>>,
                              !.result = gameData]
    /\ UNCHANGED <<compounds, m_BBoxCache>>
    /\ UNCHANGED <<listVars, decodeVars, envVars>>

NextGameData ==
    \/ \E r \in OwnerBoxRequests : BBoxToConvex(r.mins, r.maxs)
    \/ \E pVerts \in VertLists : ConvexFromVerts(pVerts)
    \/ \E pConvex \in 1..Len(convexes), gameData \in GameData :
           SetConvexGameData(pConvex, gameData)

SpecGameData == Init /\ [][NextGameData]_vars

\* C21 (as claimed): no operation changes an internally-owned primitive: the
\* game index of a cached box, which every requester of the box is handed by
\* BBoxToConvex, stays the 0 its construction set.
C21_InternalPrimitivesNotMutated ==
    \A pConvex \in 1..Len(convexes) :
        convexes[pConvex].m_Owner = OWNER_INTERNAL => convexes[pConvex].userIndex = 0

(***************************************************************************)
(* The life of a primitive's ownership tag                                 *)
(***************************************************************************)
\* the step absorbs the primitive: ConvertConvexToCollide was passed it
Absorbs(pConvex) ==
    /\ last'.op = "ConvertConvexToCollide"
    /\ \E i \in 1..Len(last'.pConvex) : last'.pConvex[i] = pConvex

\* C22: a primitive's tag changes only from OWNER_GAME to OWNER_COMPOUND, when
\* ConvertConvexToCollide absorbs it; an OWNER_INTERNAL or OWNER_COMPOUND tag
\* never changes; a primitive is destroyed only by ConvexFree while its tag is
\* OWNER_GAME, and ConvexFree leaves every other primitive as it was.
C22_OwnershipLifecycle ==
    [][/\ Len(convexes') >= Len(convexes)
       /\ \A pConvex \in 1..Len(convexes) :
             /\ convexes'[pConvex].m_Owner # convexes[pConvex].m_Owner
                => /\ convexes[pConvex].m_Owner = OWNER_GAME
                   /\ convexes'[pConvex].m_Owner = OWNER_COMPOUND
                   /\ Absorbs(pConvex)
             /\ (convexes'[pConvex].deleted /\ ~convexes[pConvex].deleted)
                => /\ last'.op = "ConvexFree"
                   /\ last'.pConvex = <<pConvex>>
                   /\ convexes[pConvex].m_Owner = OWNER_GAME
             /\ (last'.op = "ConvexFree" /\ convexes[pConvex].m_Owner # OWNER_GAME)
                => convexes'[pConvex] = convexes[pConvex]]_vars

\* C22 witness: ConvexFree was called on a primitive that a compound had
\* absorbed, beside a cached box, and both are alive
C22_Witness ==
    /\ last.op = "ConvexFree"
    /\ convexes[last.pConvex[1]].m_Owner = OWNER_COMPOUND
    /\ ~convexes[last.pConvex[1]].deleted
    /\ \E pConvex \in 1..Len(convexes) :
          convexes[pConvex].m_Owner = OWNER_INTERNAL /\ ~convexes[pConvex].deleted

(***************************************************************************)
(* The cached mass properties of a hull                                    *)
(***************************************************************************)
\* the step is a query of the volume, the center of mass or the inertia of
\* the primitive
QueriesMassProperty(pConvex) ==
    /\ last'.op \in {"GetVolume", "GetMassCenter", "GetInertia"}
    /\ last'.pConvex = <<pConvex>>

\* what the query of the step returned is the value the hull has stored
ReturnsStored(pConvex) ==
    /\ last'.op = "GetVolume" => last'.result = convexes'[pConvex].m_Volume
    /\ last'.op = "GetMassCenter" => last'.result = convexes'[pConvex].m_MassCenter
    /\ last'.op = "GetInertia" => last'.result = convexes'[pConvex].m_Inertia

\* C23: the first of GetVolume, GetMassCenter, GetInertia on a hull stores
\* volume, center of mass and inertia together; the stored volume is then
\* >= 0, no later step changes the stored values, and every later query
\* returns them.
C23_MassPropertiesCachedOnce ==
    [][\A pConvex \in 1..Len(convexes) :
          convexes[pConvex].type = "hull"
          => /\ QueriesMassProperty(pConvex)
                => /\ convexes'[pConvex].m_Volume >= 0
                   /\ convexes'[pConvex]
                          = [CalculateVolumeProperties([convexes[pConvex] EXCEPT !.m_Volume = -1])
                                EXCEPT !.m_Owner = convexes[pConvex].m_Owner]
                   /\ ReturnsStored(pConvex)
             /\ convexes[pConvex].m_Volume >= 0
                => convexes'[pConvex] = convexes[pConvex]]_vars

\* C23 witness: the inertia of a hull of volume > 0, or the center of mass of a
\* hull of volume 0, was queried and is the value the hull has stored
C23_Witness ==
    /\ last.op \in {"GetInertia", "GetMassCenter"}
    /\ convexes[last.pConvex[1]].type = "hull"
    /\ last.op = "GetInertia"
       => /\ convexes[last.pConvex[1]].m_Volume > 0
          /\ last.result = convexes[last.pConvex[1]].m_Inertia
          /\ last.result # RV(VZero)
    /\ last.op = "GetMassCenter"
       => /\ convexes[last.pConvex[1]].m_Volume = 0
          /\ last.result = convexes[last.pConvex[1]].m_MassCenter

(***************************************************************************)
(* A collideable no body was attached to                                   *)
(***************************************************************************)
\* CPhysicsEnvironment::IsCollisionModelUsed on the collideable
IsCollisionModelUsed == m_ObjectReferenceList # nullptr

\* no body was attached so far: the list is as the constructor left it, and
\* nothing but SetMassCenter was called
NeverAttached ==
    /\ attached = {}
    /\ m_ObjectReferenceList = initialList
    /\ last.op \in {"none", "SetMassCenter"}

\* C24 (as claimed): a newly constructed collideable has an empty object
\* reference list: before any body is attached IsCollisionModelUsed is false
\* and a change of the center of mass calls no callback.
C24_NewCollideableUnused ==
    NeverAttached
    => /\ ~IsCollisionModelUsed
       /\ notified = <<>>
       /\ ~crashed

(***************************************************************************)
(* The planes of the triangles                                             *)
(***************************************************************************)
\* the point lies on the stored plane: plane.dot(point) - plane.getW() is 0
\* and not a NaN
OnPlane(plane, point) ==
    /\ Dot(plane.normal, plane.normal) # 0
    /\ Dot(plane.normal, point) = plane.w

\* C25 (as claimed): a decoded hull has planes exactly when one of its
\* triangles has a material other than 0, then one plane per triangle, and
\* each of the three vertices of a triangle lies on the plane stored for it.
C25_PlaneOfEachTriangle ==
    \A order \in ByteOrders :
        (collide[order].loaded /\ ~collide[order].crashed)
        => \A i \in 1..Len(collide[order].hulls) :
              IF collide[order].hulls[i].m_TriangleMaterials = <<>>
              THEN collide[order].hulls[i].m_TrianglePlanes = <<>>
              ELSE /\ Len(collide[order].hulls[i].m_TrianglePlanes)
                          = Len(collide[order].hulls[i].m_TriangleIndices) \div 3
                   /\ \A t \in 1..Len(collide[order].hulls[i].m_TrianglePlanes), e \in 0..2 :
                         OnPlane(collide[order].hulls[i].m_TrianglePlanes[t],
                                 HullPoint(collide[order].hulls[i], 3 * (t - 1) + e))

(***************************************************************************)
(* btScalar is a 32-bit float (Bullet's default).  A time the environment  *)
(* stores is an integer count of units of 2^-33 s, which is exact for the  *)
(* floats the model meets (at most 24 significant bits, magnitude below    *)
(* 0.25 s); a float parameter or factor is a record of its sign, its       *)
(* 24-bit mantissa m and its exponent e, of value m * 2^e.  Every          *)
(* operation rounds to nearest, ties to even, as the hardware does.        *)
(***************************************************************************)
\* the number of bits of a natural number
RECURSIVE BitLength(_)
BitLength(n) == IF n = 0 THEN 0 ELSE 1 + BitLength(n \div 2)

\* round to nearest, ties to even: q with the remainder r against half a unit
RoundNearestEven(q, r, half) ==
    IF r > half \/ (r = half /\ q % 2 = 1) THEN q + 1 ELSE q

\* a natural number rounded to 24 significant bits
RoundMagnitude(a) ==
    IF a < 2^24 THEN a
    ELSE RoundNearestEven(a \div 2^(BitLength(a) - 24), a % 2^(BitLength(a) - 24),
                          2^(BitLength(a) - 25)) * 2^(BitLength(a) - 24)

\* the float nearest to an exact count of units
RoundToFloat(units) ==
    IF units < 0 THEN -RoundMagnitude(-units) ELSE RoundMagnitude(units)

\* a float of value m * 2^e
btScalar(negative, m, e) == [negative |-> negative, m |-> m, e |-> e]

\* a mantissa of 25 bits after rounding up becomes one of 24 bits
Renormalise(negative, m, e) ==
    IF m = 2^24 THEN btScalar(negative, 2^23, e + 1) ELSE btScalar(negative, m, e)

\* the 24-bit mantissa of a natural number of n bits that is a float
Mantissa(a, n) == IF n <= 24 THEN a * 2^(24 - n) ELSE a \div 2^(n - 24)

\* a stored time as sign, mantissa and exponent
AsFloat(units) ==
    IF units = 0 THEN btScalar(FALSE, 0, 0)
    ELSE btScalar(units < 0, Mantissa(Abs(units), BitLength(Abs(units))),
               BitLength(Abs(units)) - 24 - 33)

\* a float as a count of units of 2^-33 s
InUnits(f) == (IF f.negative THEN -1 ELSE 1) * f.m * 2^(f.e + 33)

\* a < b on floats
FloatLess(a, b) ==
    IF a.negative # b.negative THEN a.negative /\ (a.m > 0 \/ b.m > 0)
    ELSE IF a.m = 0 \/ b.m = 0 THEN (IF a.negative THEN a.m > 0 ELSE b.m > 0)
    ELSE IF a.negative THEN b.e < a.e \/ (b.e = a.e /\ b.m < a.m)
    ELSE a.e < b.e \/ (a.e = b.e /\ a.m < b.m)

\* binary long division of 2^n * r by d, r < d: quotient and remainder
RECURSIVE LongDivide(_, _, _, _)
LongDivide(r, q, n, d) ==
    IF n = 0 THEN [q |-> q, r |-> r]
    ELSE IF 2 * r >= d THEN LongDivide(2 * r - d, 2 * q + 1, n - 1, d)
    ELSE LongDivide(2 * r, 2 * q, n - 1, d)

\* 1.0f / f for a float f > 0: 2^47 / m, rounded, times 2^(-47 - e)
Reciprocal(f) ==
    Renormalise(FALSE,
                RoundNearestEven(LongDivide(1, 0, 47, f.m).q,
                                 2 * LongDivide(1, 0, 47, f.m).r, f.m),
                -47 - f.e)

\* the product of two 24-bit mantissas in two halves of 24 bits, from the
\* products of their 12-bit halves
CrossTerm(a, b) == (a \div 4096) * (b % 4096) + (a % 4096) * (b \div 4096)

MidTerm(a, b) == (CrossTerm(a, b) % 4096) * 4096 + (a % 4096) * (b % 4096)

ProductHigh(a, b) ==
    (a \div 4096) * (b \div 4096) + CrossTerm(a, b) \div 4096 + MidTerm(a, b) \div 2^24

ProductLow(a, b) == MidTerm(a, b) % 2^24

\* the product hi * 2^24 + lo of two mantissas, rounded to 24 bits
RoundProduct(negative, hi, lo, e) ==
    IF hi >= 2^23
    THEN Renormalise(negative, RoundNearestEven(hi, lo, 2^23), e + 24)
    ELSE Renormalise(negative,
                     RoundNearestEven(2 * hi + lo \div 2^23, lo % 2^23, 2^22), e + 23)

\* a * b on floats
FloatMul(a, b) ==
    IF a.m = 0 \/ b.m = 0 THEN btScalar(a.negative # b.negative, 0, 0)
    ELSE RoundProduct(a.negative # b.negative, ProductHigh(a.m, b.m),
                      ProductLow(a.m, b.m), a.e + b.e)

\* (int) f: the fraction is cut off
TruncToInt(f) ==
    (IF f.negative THEN -1 ELSE 1)
        * (IF f.e >= 0 THEN f.m * 2^f.e
           ELSE IF f.e < -24 THEN 0
           ELSE f.m \div 2^(-f.e))

(***************************************************************************)
(* The physics environment (physics_environment.cpp).  Times are counted   *)
(* in units of 2^-33 s, contact distances in hundredths of a unit.         *)
(* Objects are ids into the heap physicsObjects.  A handler works on a     *)
(* world: the environment's fields, the heap of objects and the events     *)
(* fired so far by the step.  CPhysicsObject is defined in                 *)
(* physics_object.cpp; of it the model keeps the flags that the            *)
(* environment reads (IsStatic, IsTrigger, IsAsleep, WasAsleep), and       *)
(* takes its destructor to call NotifyObjectRemoving.                      *)
(***************************************************************************)
\* the most objects an environment is given
MaxObjects == 2

\* DEFAULT_TICK_INTERVAL, the float 0.015f: 16106127 * 2^-30 s
DEFAULT_TICK_INTERVAL == 128849016

\* the clock stops the model at this many units, seven default timesteps
MaxTime == 901943112

\* CPhysicsEnvironment::CPhysicsEnvironment
CPhysicsEnvironment ==
    [created |-> TRUE,
     m_Objects |-> <<>>, m_NonStaticObjects |-> <<>>, m_ActiveNonStaticObjects |-> <<>>,
     m_DeadObjects |-> <<>>, m_TriggerTouches |-> <<>>,
     m_QueueDeleteObject |-> FALSE, m_InSimulation |-> FALSE,
     m_SimulationTimeStep |-> DEFAULT_TICK_INTERVAL,
     m_SimulationInvTimeStep |-> Reciprocal(AsFloat(DEFAULT_TICK_INTERVAL)),
     m_LastPSITime |-> 0, m_TimeSinceLastPSI |-> 0]

\* a CPhysicsObject: the flags the environment reads, whether
\* CALLBACK_MARKED_FOR_DELETE is set, and how often the object was passed to
\* DestroyObject and to delete
CPhysicsObject(isStatic, isTrigger, asleep) ==
    [isStatic |-> isStatic, isTrigger |-> isTrigger, asleep |-> asleep,
     m_WasAsleep |-> asleep, markedForDelete |-> FALSE, destroyed |-> 0, deleted |-> 0,
     deletedInSimulation |-> FALSE]

World(e, objects, fired) == [env |-> e, objects |-> objects, fired |-> fired]

\* CUtlVector::Find: the first index of the element, 0 when it is absent
RECURSIVE Find(_, _, _)
Find(list, element, index) ==
    IF index > Len(list) THEN 0
    ELSE IF list[index] = element THEN index
    ELSE Find(list, element, index + 1)

\* CUtlVector::FastRemove: the last element takes the place of the removed one
FastRemove(list, index) ==
    IF index = Len(list) THEN SubSeq(list, 1, Len(list) - 1)
    ELSE SubSeq([list EXCEPT ![index] = list[Len(list)]], 1, Len(list) - 1)

\* CUtlVector::FindAndFastRemove
FindAndFastRemove(list, element) ==
    IF Find(list, element, 1) = 0 THEN list ELSE FastRemove(list, Find(list, element, 1))

\* CPhysicsEnvironment::AddObject
AddObject(e, objects, object) ==
    [e EXCEPT
        !.m_Objects = Append(@, object),
        !.m_NonStaticObjects = IF objects[object].isStatic THEN @ ELSE Append(@, object),
        !.m_ActiveNonStaticObjects =
            IF ~objects[object].isStatic /\ ~objects[object].m_WasAsleep
            THEN Append(@, object) ELSE @]

\* CPhysicsEnvironment::NotifyTriggerRemoved: the touches of the trigger are
\* dropped, no event is fired
NotifyTriggerRemoved(touches, trigger) ==
    SelectSeq(touches, LAMBDA touch : touch.m_Trigger # trigger)

\* the loop of NotifyObjectRemoving over the touches of the object
RemoveTouchesOf(touches, object) ==
    SelectSeq(touches, LAMBDA touch : touch.m_Object # object)

\* CPhysicsEnvironment::NotifyObjectRemoving
NotifyObjectRemoving(e, objects, object) ==
    [e EXCEPT
        !.m_TriggerTouches =
            RemoveTouchesOf(IF objects[object].isTrigger
                            THEN NotifyTriggerRemoved(@, object) ELSE @, object),
        !.m_ActiveNonStaticObjects =
            IF ~objects[object].isStatic /\ ~objects[object].m_WasAsleep
            THEN FindAndFastRemove(@, object) ELSE @,
        !.m_NonStaticObjects =
            IF ~objects[object].isStatic THEN FindAndFastRemove(@, object) ELSE @]

\* delete object: the destructor of CPhysicsObject tells the environment, then
\* the object is gone
Delete(w, object) ==
    World(NotifyObjectRemoving(w.env, w.objects, object),
          [w.objects EXCEPT
              ![object].deleted = @ + 1,
              ![object].deletedInSimulation = @ \/ w.env.m_InSimulation],
          w.fired)

\* the loop of CleanupDeleteList and of the destructor: delete list[index] on
RECURSIVE DeleteLoop(_, _, _)
DeleteLoop(w, list, index) ==
    IF index > Len(list) THEN w
    ELSE DeleteLoop(Delete(w, list[index]), list, index + 1)

\* CleanupDeleteList that forgets to purge the list
CleanupDeleteListKeepList(w) == DeleteLoop(w, w.env.m_DeadObjects, 1)

\* CPhysicsEnvironment::CleanupDeleteList
CleanupDeleteList(w) ==
    World([DeleteLoop(w, w.env.m_DeadObjects, 1).env EXCEPT !.m_DeadObjects = <<>>],
          DeleteLoop(w, w.env.m_DeadObjects, 1).objects,
          w.fired)

\* DestroyObject that deletes at once whatever the environment is doing
DestroyObjectAtOnce(w, pObject) ==
    Delete(World([w.env EXCEPT !.m_Objects = FindAndFastRemove(@, pObject)],
                 [w.objects EXCEPT ![pObject].destroyed = @ + 1], w.fired),
           pObject)

\* CPhysicsEnvironment::DestroyObject
DestroyObject(w, pObject) ==
    IF w.env.m_InSimulation \/ w.env.m_QueueDeleteObject
    THEN World([w.env EXCEPT !.m_Objects = FindAndFastRemove(@, pObject),
                             !.m_DeadObjects = Append(@, pObject)],
               [w.objects EXCEPT ![pObject].markedForDelete = TRUE,
                                 ![pObject].destroyed = @ + 1],
               w.fired)
    ELSE Delete(World([w.env EXCEPT !.m_Objects = FindAndFastRemove(@, pObject)],
                      [w.objects EXCEPT ![pObject].destroyed = @ + 1], w.fired),
                pObject)

\* an event handed to IPhysicsObjectEvent or to IPhysicsCollisionEvent
ObjectEvent(event, object) == [event |-> event, trigger |-> 0, object |-> object]

TriggerEvent(event, trigger, object) == [event |-> event, trigger |-> trigger, object |-> object]

\* CPhysicsObject::UpdateEventSleepState: m_WasAsleep takes the current sleep
\* state (the value it had is what the call returns)
UpdateEventSleepState(objects, object) ==
    [objects EXCEPT ![object].m_WasAsleep = objects[object].asleep]

\* the first loop of UpdateActiveObjects with FastRemove(objectIndex) in place
\* of FastRemove(objectIndex--): the element moved into the gap is skipped
RECURSIVE ActiveLoopSkipping(_, _)
ActiveLoopSkipping(w, objectIndex) ==
    IF objectIndex > Len(w.env.m_ActiveNonStaticObjects) THEN w
    ELSE IF w.objects[w.env.m_ActiveNonStaticObjects[objectIndex]].m_WasAsleep
            # w.objects[w.env.m_ActiveNonStaticObjects[objectIndex]].asleep
    THEN ActiveLoopSkipping(
             World([w.env EXCEPT !.m_ActiveNonStaticObjects = FastRemove(@, objectIndex)],
                   UpdateEventSleepState(w.objects,
                                         w.env.m_ActiveNonStaticObjects[objectIndex]),
                   Append(w.fired,
                          ObjectEvent("ObjectSleep",
                                      w.env.m_ActiveNonStaticObjects[objectIndex]))),
             objectIndex + 1)
    ELSE ActiveLoopSkipping(w, objectIndex + 1)

\* the first loop of UpdateActiveObjects from objectIndex on: the objects of
\* the active list that fell asleep leave the list, ObjectSleep is fired
RECURSIVE ActiveLoop(_, _)
ActiveLoop(w, objectIndex) ==
    IF objectIndex > Len(w.env.m_ActiveNonStaticObjects) THEN w
    ELSE IF w.objects[w.env.m_ActiveNonStaticObjects[objectIndex]].m_WasAsleep
            # w.objects[w.env.m_ActiveNonStaticObjects[objectIndex]].asleep
    THEN ActiveLoop(
             World([w.env EXCEPT !.m_ActiveNonStaticObjects = FastRemove(@, objectIndex)],
                   UpdateEventSleepState(w.objects,
                                         w.env.m_ActiveNonStaticObjects[objectIndex]),
                   Append(w.fired,
                          ObjectEvent("ObjectSleep",
                                      w.env.m_ActiveNonStaticObjects[objectIndex]))),
             objectIndex)
    ELSE ActiveLoop(w, objectIndex + 1)

\* the second loop of UpdateActiveObjects from objectIndex on: the non-static
\* objects whose sleep state changed join the list, ObjectWake is fired
RECURSIVE NonStaticLoop(_, _)
NonStaticLoop(w, objectIndex) ==
    IF objectIndex > Len(w.env.m_NonStaticObjects) THEN w
    ELSE IF w.objects[w.env.m_NonStaticObjects[objectIndex]].m_WasAsleep
            # w.objects[w.env.m_NonStaticObjects[objectIndex]].asleep
    THEN NonStaticLoop(
             World([w.env EXCEPT !.m_ActiveNonStaticObjects =
                                     Append(@, w.env.m_NonStaticObjects[objectIndex])],
                   UpdateEventSleepState(w.objects, w.env.m_NonStaticObjects[objectIndex]),
                   Append(w.fired,
                          ObjectEvent("ObjectWake", w.env.m_NonStaticObjects[objectIndex]))),
             objectIndex + 1)
    ELSE NonStaticLoop(w, objectIndex + 1)

\* CPhysicsEnvironment::UpdateActiveObjects
UpdateActiveObjects(w) == NonStaticLoop(ActiveLoop(w, 1), 1)

\* TriggerTouchLessFunc: by trigger, then by object
TriggerTouchLess(a, b) ==
    a.m_Trigger < b.m_Trigger \/ (a.m_Trigger = b.m_Trigger /\ a.m_Object < b.m_Object)

\* m_TriggerTouches.Find(newTouch): the index of the pair's touch, 0 for
\* InvalidIndex
RECURSIVE FindTouch(_, _, _, _)
FindTouch(touches, trigger, object, index) ==
    IF index > Len(touches) THEN 0
    ELSE IF touches[index].m_Trigger = trigger /\ touches[index].m_Object = object
    THEN index
    ELSE FindTouch(touches, trigger, object, index + 1)

\* TriggerTouch_t(trigger, object): a new touch counts as touching this tick
TriggerTouch_t(trigger, object) ==
    [m_Trigger |-> trigger, m_Object |-> object, m_TouchingThisTick |-> TRUE]

\* m_TriggerTouches.Insert
InsertTouch(touches, newTouch) ==
    SelectSeq(touches, LAMBDA touch : TriggerTouchLess(touch, newTouch))
    \o <<newTouch>>
    \o SelectSeq(touches, LAMBDA touch : TriggerTouchLess(newTouch, touch))

\* a contact of the manifold is nearer than maxDistance
HasContactWithin(manifold, maxDistance) ==
    \E contactIndex \in 1..Len(manifold.contacts) :
        manifold.contacts[contactIndex] < maxDistance

\* the body of the manifold loop once trigger and object are told apart and
\* the touch was looked up
TouchManifold(w, manifold, trigger, object, foundIndex) ==
    IF foundIndex # 0
    THEN IF w.env.m_TriggerTouches[foundIndex].m_TouchingThisTick THEN w
         ELSE IF HasContactWithin(manifold, 10)
         THEN World([w.env EXCEPT !.m_TriggerTouches[foundIndex].m_TouchingThisTick = TRUE],
                    w.objects, w.fired)
         ELSE w
    ELSE IF HasContactWithin(manifold, 0)
    THEN World([w.env EXCEPT !.m_TriggerTouches =
                                 InsertTouch(@, TriggerTouch_t(trigger, object))],
               w.objects,
               Append(w.fired, TriggerEvent("ObjectEnterTrigger", trigger, object)))
    ELSE w

\* the body of the manifold loop for a manifold with contacts
CheckManifold(w, manifold, object0, object1) ==
    IF w.objects[object0].isTrigger = w.objects[object1].isTrigger THEN w
    ELSE IF w.objects[object0].isTrigger
    THEN IF w.objects[object1].isStatic THEN w
         ELSE TouchManifold(w, manifold, object0, object1,
                            FindTouch(w.env.m_TriggerTouches, object0, object1, 1))
    ELSE IF w.objects[object0].isStatic THEN w
         ELSE TouchManifold(w, manifold, object1, object0,
                            FindTouch(w.env.m_TriggerTouches, object1, object0, 1))

\* the first loop of CheckTriggerTouches, from manifoldIndex on
RECURSIVE ManifoldLoop(_, _, _)
ManifoldLoop(w, manifolds, manifoldIndex) ==
    IF manifoldIndex > Len(manifolds) THEN w
    ELSE IF Len(manifolds[manifoldIndex].contacts) = 0
    THEN ManifoldLoop(w, manifolds, manifoldIndex + 1)
    ELSE ManifoldLoop(CheckManifold(w, manifolds[manifoldIndex],
                                    manifolds[manifoldIndex].body0,
                                    manifolds[manifoldIndex].body1),
                      manifolds, manifoldIndex + 1)

\* the second loop of CheckTriggerTouches: a touch that was not seen this tick
\* is left (ObjectLeaveTrigger) and removed, the others are kept for the next
\* tick
LeaveEvents(touches) ==
    [i \in 1..Len(SelectSeq(touches, LAMBDA touch : ~touch.m_TouchingThisTick)) |->
        TriggerEvent("ObjectLeaveTrigger",
                     SelectSeq(touches, LAMBDA touch : ~touch.m_TouchingThisTick)[i].m_Trigger,
                     SelectSeq(touches, LAMBDA touch : ~touch.m_TouchingThisTick)[i].m_Object)]

KeptTouches(touches) ==
    [i \in 1..Len(SelectSeq(touches, LAMBDA touch : touch.m_TouchingThisTick)) |->
        [SelectSeq(touches, LAMBDA touch : touch.m_TouchingThisTick)[i]
            EXCEPT !.m_TouchingThisTick = FALSE]]

TouchLoop(w) ==
    World([w.env EXCEPT !.m_TriggerTouches = KeptTouches(@)],
          w.objects,
          w.fired \o LeaveEvents(w.env.m_TriggerTouches))

\* CPhysicsEnvironment::CheckTriggerTouches on the manifolds of the dispatcher
CheckTriggerTouches(w, manifolds) == TouchLoop(ManifoldLoop(w, manifolds, 1))

\* the variables of the collision code, which the environment leaves alone
collisionVars == <<collideVars, last, listVars, decodeVars>>

ObjectPairs == (1..MaxObjects) \X (1..MaxObjects)

\* the event of the pair that was fired last in the sequence, `before` when
\* the sequence has none
RECURSIVE LastEventOf(_, _, _)
LastEventOf(fired, pair, before) ==
    IF fired = <<>> THEN before
    ELSE IF fired[Len(fired)].trigger = pair[1] /\ fired[Len(fired)].object = pair[2]
    THEN fired[Len(fired)].event
    ELSE LastEventOf(SubSeq(fired, 1, Len(fired) - 1), pair, before)

\* what the step leaves in `callbacks`: the operation, the events it fired,
\* whether a call of Simulate returned with it, and per pair of trigger and
\* object the trigger event fired last
Called(op, fired, simulateReturned) ==
    [op |-> op, fired |-> fired, simulateReturned |-> simulateReturned,
     lastTriggerEvent |->
         [pair \in ObjectPairs |->
             LastEventOf(fired, pair, callbacks.lastTriggerEvent[pair])]]

NotInSimulate ==
    [pc |-> "idle", deltaTime |-> btScalar(FALSE, 0, 0), psiCount |-> 0, psi |-> 0,
     oldTimeSinceLastPSI |-> 0, timeBefore |-> 0, sinceBefore |-> 0,
     queueWhenCalled |-> FALSE, deadWhenCalled |-> <<>>]

\* a new environment, no object in it
InitEnvironment ==
    /\ convexes = <<>>
    /\ compounds = <<>>
    /\ m_BBoxCache = <<>>
    /\ last = NoCall
    /\ m_ObjectReferenceList = nullptr
    /\ initialList = nullptr
    /\ NoBodies
    /\ ledgetree = NoTree
    /\ collide = [order \in ByteOrders |-> NotLoaded]
    /\ env = CPhysicsEnvironment
    /\ physicsObjects = <<>>
    /\ callbacks = [op |-> "CPhysicsEnvironment", fired |-> <<>>, simulateReturned |-> FALSE,
                    lastTriggerEvent |-> [pair \in ObjectPairs |-> "none"]]
    /\ simulate = NotInSimulate

\* game code runs: outside Simulate, or in a callback of a simulation step
GameCodeRuns == simulate.pc \in {"idle", "tick"}

\* the objects the game holds a pointer to: those it did not destroy
HeldObjects == {object \in 1..Len(physicsObjects) : physicsObjects[object].destroyed = 0}

\* CPhysicsEnvironment::CreatePolyObject / CreatePolyObjectStatic: the new
\* object is added to the environment
CreatePolyObject(isStatic, isTrigger, asleep) ==
    /\ GameCodeRuns
    /\ Len(physicsObjects) < MaxObjects
    /\ physicsObjects' = Append(physicsObjects, CPhysicsObject(isStatic, isTrigger, asleep))
    /\ env' = AddObject(env, Append(physicsObjects, CPhysicsObject(isStatic, isTrigger, asleep)),
                        Len(physicsObjects) + 1)
    /\ callbacks' = Called("AddObject", <<>>, FALSE)
    /\ UNCHANGED <<simulate, collisionVars>>

\* CPhysicsEnvironment::EnableDeleteQueue
EnableDeleteQueue(enable) ==
    /\ GameCodeRuns
    /\ env.m_QueueDeleteObject # enable
    /\ env' = [env EXCEPT !.m_QueueDeleteObject = enable]
    /\ callbacks' = Called("EnableDeleteQueue", <<>>, FALSE)
    /\ UNCHANGED <<physicsObjects, simulate, collisionVars>>

\* CPhysicsEnvironment::DestroyObject on an object the game holds
DestroyObjectCall(pObject) ==
    /\ GameCodeRuns
    /\ pObject \in HeldObjects
    /\ env' = DestroyObject(World(env, physicsObjects, <<>>), pObject).env
    /\ physicsObjects' = DestroyObject(World(env, physicsObjects, <<>>), pObject).objects
    /\ callbacks' = Called("DestroyObject", <<>>, FALSE)
    /\ UNCHANGED <<simulate, collisionVars>>

\* the sleep state of the object's rigid body changes: Bullet puts it to sleep
\* or wakes it in a step, or the game does between steps
SetActivationState(object) ==
    /\ GameCodeRuns
    /\ object \in 1..Len(physicsObjects)
    /\ physicsObjects[object].deleted = 0
    /\ ~physicsObjects[object].isStatic
    /\ physicsObjects' = [physicsObjects EXCEPT ![object].asleep = ~@]
    /\ callbacks' = Called("SetActivationState", <<>>, FALSE)
    /\ UNCHANGED <<env, simulate, collisionVars>>

\* CPhysicsEnvironment::NotifyTriggerRemoved, called for a trigger that stays
\* in the environment
TriggerRemoved(trigger) ==
    /\ GameCodeRuns
    /\ trigger \in 1..Len(physicsObjects)
    /\ physicsObjects[trigger].deleted = 0
    /\ physicsObjects[trigger].isTrigger
    /\ env' = [env EXCEPT !.m_TriggerTouches = NotifyTriggerRemoved(@, trigger)]
    /\ callbacks' = Called("NotifyTriggerRemoved", <<>>, FALSE)
    /\ UNCHANGED <<physicsObjects, simulate, collisionVars>>

\* the floats 0.0f, 1.0f, 0.1f and 0.001f
FloatZero == btScalar(FALSE, 0, 0)

FloatOne == btScalar(FALSE, 8388608, -23)

FloatTenth == btScalar(FALSE, 13421773, -27)

FloatThousandth == btScalar(FALSE, 8589935, -33)

\* deltaTime > 0.0f && deltaTime < 1.0f
ValidDeltaTime(deltaTime) == FloatLess(FloatZero, deltaTime) /\ FloatLess(deltaTime, FloatOne)

\* Simulate without MIN(deltaTime, 0.1f)
UnclampedDeltaTime(deltaTime) == deltaTime

\* MIN(deltaTime, 0.1f)
ClampDeltaTime(deltaTime) ==
    IF FloatLess(deltaTime, FloatTenth) THEN deltaTime ELSE FloatTenth

\* m_TimeSinceLastPSI += deltaTime, after the clamp
Accumulated(e, deltaTime) ==
    RoundToFloat(e.m_TimeSinceLastPSI + InUnits(ClampDeltaTime(deltaTime)))

\* (int) (m_TimeSinceLastPSI * m_SimulationInvTimeStep): the float product
\* with the inverse of the timestep, the fraction cut off
PsiCount(timeSinceLastPSI, invTimeStep) ==
    TruncToInt(FloatMul(AsFloat(timeSinceLastPSI), invTimeStep))

\* CPhysicsEnvironment::GetSimulationTime
GetSimulationTime(e) == RoundToFloat(e.m_LastPSITime + e.m_TimeSinceLastPSI)

\* if (!m_QueueDeleteObject) CleanupDeleteList();
CleanupUnlessQueued(w) == IF w.env.m_QueueDeleteObject THEN w ELSE CleanupDeleteList(w)

\* the locals of a call of Simulate that is about to run steps
InSimulate(e, deltaTime) ==
    [pc |-> "step", deltaTime |-> deltaTime,
     psiCount |-> PsiCount(Accumulated(e, deltaTime), e.m_SimulationInvTimeStep),
     psi |-> 0,
     oldTimeSinceLastPSI |-> Accumulated(e, deltaTime),
     timeBefore |-> GetSimulationTime(e), sinceBefore |-> e.m_TimeSinceLastPSI,
     queueWhenCalled |-> e.m_QueueDeleteObject, deadWhenCalled |-> e.m_DeadObjects]

\* Simulate runs no step: the time is added when deltaTime is valid, the dead
\* objects are deleted unless they are queued
SimulateWithoutStep(w, deltaTime) ==
    CleanupUnlessQueued(
        World([w.env EXCEPT !.m_TimeSinceLastPSI =
                  IF ValidDeltaTime(deltaTime) THEN Accumulated(w.env, deltaTime) ELSE @],
              w.objects, w.fired))

\* the time a call of Simulate may add to the clock
AddedTime(deltaTime) ==
    IF ValidDeltaTime(deltaTime) THEN InUnits(ClampDeltaTime(deltaTime)) ELSE 0

\* CPhysicsEnvironment::Simulate up to the first stepSimulation, or to its end
\* when it runs no step
Simulate(deltaTime) ==
    /\ simulate.pc = "idle"
    /\ env.m_LastPSITime + env.m_TimeSinceLastPSI + AddedTime(deltaTime) <= MaxTime
    /\ IF ValidDeltaTime(deltaTime)
          /\ PsiCount(Accumulated(env, deltaTime), env.m_SimulationInvTimeStep) > 0
       THEN /\ env' = [env EXCEPT !.m_TimeSinceLastPSI = 0]
            /\ simulate' = InSimulate(env, deltaTime)
            /\ callbacks' = Called("Simulate", <<>>, FALSE)
            /\ UNCHANGED physicsObjects
       ELSE /\ env' = SimulateWithoutStep(World(env, physicsObjects, <<>>), deltaTime).env
            /\ physicsObjects' =
                   SimulateWithoutStep(World(env, physicsObjects, <<>>), deltaTime).objects
            /\ simulate' = [NotInSimulate EXCEPT
                               !.deltaTime = deltaTime,
                               !.timeBefore = GetSimulationTime(env),
                               !.sinceBefore = env.m_TimeSinceLastPSI,
                               !.queueWhenCalled = env.m_QueueDeleteObject,
                               !.deadWhenCalled = env.m_DeadObjects]
            /\ callbacks' = Called("Simulate", <<>>, TRUE)
    /\ UNCHANGED collisionVars

\* CPhysicsEnvironment::PreTickCallback, at the start of a step
PreTickCallback ==
    /\ simulate.pc = "step"
    /\ env' = [CleanupUnlessQueued(World(env, physicsObjects, <<>>)).env
                  EXCEPT !.m_InSimulation = TRUE]
    /\ physicsObjects' = CleanupUnlessQueued(World(env, physicsObjects, <<>>)).objects
    /\ simulate' = [simulate EXCEPT !.pc = "tick"]
    /\ callbacks' = Called("PreTickCallback", <<>>, FALSE)
    /\ UNCHANGED collisionVars

\* the end of CPhysicsEnvironment::TickCallback (m_InSimulation = false), then
\* m_LastPSITime += m_SimulationTimeStep in Simulate
Ticked(w) ==
    World([w.env EXCEPT !.m_InSimulation = FALSE,
                        !.m_LastPSITime = RoundToFloat(@ + w.env.m_SimulationTimeStep)],
          w.objects, w.fired)

\* the end of Simulate after its last step:
\* m_TimeSinceLastPSI = oldTimeSinceLastPSI - psiCount * m_SimulationTimeStep
SimulateReturn(w, locals) ==
    CleanupUnlessQueued(
        World([w.env EXCEPT !.m_TimeSinceLastPSI =
                  RoundToFloat(locals.oldTimeSinceLastPSI
                       - RoundToFloat(locals.psiCount * w.env.m_SimulationTimeStep))],
              w.objects, w.fired))

\* the world after the tick callback of a step, and after the rest of
\* Simulate when the step was the last one
AfterTick(w, manifolds, locals) ==
    IF locals.psi + 1 < locals.psiCount
    THEN Ticked(UpdateActiveObjects(CheckTriggerTouches(w, manifolds)))
    ELSE SimulateReturn(Ticked(UpdateActiveObjects(CheckTriggerTouches(w, manifolds))),
                        locals)

\* stepSimulation returns to the loop of Simulate: ++psi, and the next step
\* or the end of the loop
StepReturns ==
    /\ simulate.pc = "tick"
    /\ simulate' = [simulate EXCEPT
                       !.pc = IF simulate.psi + 1 < simulate.psiCount THEN "step" ELSE "idle",
                       !.psi = @ + 1]

\* CPhysicsEnvironment::TickCallback, at the end of a step
TickCallback(manifolds) ==
    /\ StepReturns
    /\ env' = AfterTick(World(env, physicsObjects, <<>>), manifolds, simulate).env
    /\ physicsObjects' = AfterTick(World(env, physicsObjects, <<>>), manifolds, simulate).objects
    /\ callbacks' = Called("TickCallback",
                           AfterTick(World(env, physicsObjects, <<>>), manifolds, simulate).fired,
                           ~(simulate.psi + 1 < simulate.psiCount))
    /\ UNCHANGED collisionVars

\* MAX(timestep, 0.001f)
ClampTimestep(timestep) ==
    IF FloatLess(FloatThousandth, timestep) THEN timestep ELSE FloatThousandth

\* CPhysicsEnvironment::SetSimulationTimestep, between calls of Simulate
SetSimulationTimestep(timestep) ==
    /\ simulate.pc = "idle"
    /\ env' = [env EXCEPT !.m_SimulationTimeStep = InUnits(ClampTimestep(timestep)),
                          !.m_SimulationInvTimeStep = Reciprocal(ClampTimestep(timestep))]
    /\ callbacks' = Called("SetSimulationTimestep", <<>>, FALSE)
    /\ UNCHANGED <<physicsObjects, simulate, collisionVars>>

\* CPhysicsEnvironment::ResetSimulationClock, between calls of Simulate
ResetSimulationClock ==
    /\ simulate.pc = "idle"
    /\ env' = [env EXCEPT !.m_LastPSITime = 0, !.m_TimeSinceLastPSI = 0]
    /\ callbacks' = Called("ResetSimulationClock", <<>>, FALSE)
    /\ UNCHANGED <<physicsObjects, simulate, collisionVars>>

\* CPhysicsEnvironment::~CPhysicsEnvironment: the dead objects are deleted,
\* then the objects of the object list
DestroyEnvironment ==
    /\ simulate.pc = "idle"
    /\ env' = DeleteLoop(CleanupDeleteList(World(env, physicsObjects, <<>>)),
                         env.m_Objects, 1).env
    /\ physicsObjects' = DeleteLoop(CleanupDeleteList(World(env, physicsObjects, <<>>)),
                                    env.m_Objects, 1).objects
    /\ simulate' = [simulate EXCEPT !.pc = "destroyed"]
    /\ callbacks' = Called("~CPhysicsEnvironment", <<>>, FALSE)
    /\ UNCHANGED collisionVars

(***************************************************************************)
(* Deferred deletion: objects with no trigger among them are created and   *)
(* destroyed (each at most once) outside and inside simulation steps, with *)
(* the delete queue switched on and off.                                   *)
(***************************************************************************)
NoManifolds == <<>>

\* frames of no time, of one timestep and of two
FrameTimes ==
    {FloatZero, AsFloat(DEFAULT_TICK_INTERVAL), AsFloat(2 * DEFAULT_TICK_INTERVAL)}

NextDelete ==
    \/ \E isStatic \in BOOLEAN : CreatePolyObject(isStatic, FALSE, FALSE)
    \/ \E enable \in BOOLEAN : EnableDeleteQueue(enable)
    \/ \E pObject \in 1..MaxObjects : DestroyObjectCall(pObject)
    \/ \E deltaTime \in FrameTimes : Simulate(deltaTime)
    \/ PreTickCallback
    \/ TickCallback(NoManifolds)
    \/ DestroyEnvironment

SpecDelete == InitEnvironment /\ [][NextDelete]_vars

\* the objects a step hands to DestroyObject
DestroyedBy(before, after) ==
    {object \in DOMAIN before : after[object].destroyed > before[object].destroyed}

\* the objects a step deletes
DeletedBy(before, after) ==
    {object \in DOMAIN before : after[object].deleted > before[object].deleted}

\* C26: DestroyObject always takes the object out of the object list; when the
\* environment is inside a simulation step or the delete queue is enabled the
\* object is not deleted but marked for deletion and appended to the dead
\* list; and no object is deleted at a moment when IsInSimulation is true
\* (Delete records the flag at the moment of each deletion).
C26_DeferredDeletionSafe ==
    [][ /\ \A object \in DestroyedBy(physicsObjects, physicsObjects') :
            /\ Find(env'.m_Objects, object, 1) = 0
            /\ (env.m_InSimulation \/ env.m_QueueDeleteObject)
                   => /\ object \notin DeletedBy(physicsObjects, physicsObjects')
                      /\ physicsObjects'[object].markedForDelete
                      /\ env'.m_DeadObjects = Append(env.m_DeadObjects, object)
        /\ \A other \in DOMAIN physicsObjects' :
               ~physicsObjects'[other].deletedInSimulation ]_vars

\* C26 witness: DestroyObject has just been called inside a simulation step
\* with the delete queue disabled, and its object waits on the dead list,
\* marked and not deleted.
C26_Witness ==
    /\ callbacks.op = "DestroyObject"
    /\ env.m_InSimulation
    /\ ~env.m_QueueDeleteObject
    /\ \E object \in DOMAIN physicsObjects :
           /\ physicsObjects[object].destroyed = 1
           /\ physicsObjects[object].markedForDelete
           /\ physicsObjects[object].deleted = 0
           /\ Find(env.m_DeadObjects, object, 1) > 0
           /\ Find(env.m_Objects, object, 1) = 0

(***************************************************************************)
(* Deferred deletion with progress: a step that has begun runs its         *)
(* pre-tick callback and returns (Bullet calls the callbacks from          *)
(* stepSimulation, and the tick callback is the step of the model in which *)
(* stepSimulation returns), and the host destroys the environment in the   *)
(* end.                                                                     *)
(***************************************************************************)
SpecDeleteLive ==
    /\ InitEnvironment
    /\ [][NextDelete]_vars
    /\ WF_vars(PreTickCallback)
    /\ WF_simulate(StepReturns)
    /\ SF_vars(DestroyEnvironment)

\* the elements of a list
Elements(list) == {list[index] : index \in DOMAIN list}

\* the object was passed to DestroyObject
WasDestroyed(object) ==
    IF object \in DOMAIN physicsObjects THEN physicsObjects[object].destroyed = 1 ELSE FALSE

\* the object was deleted, once
WasDeleted(object) ==
    IF object \in DOMAIN physicsObjects THEN physicsObjects[object].deleted = 1 ELSE FALSE

\* C27: with each object passed to DestroyObject at most once, every
\* destroyed object is deleted exactly once: no object is deleted twice; an
\* object destroyed outside a simulation step with the queue disabled is
\* deleted in the call; every object that waited on the dead list when
\* Simulate was called with the queue disabled is deleted when the call
\* returns; after a cleanup (in PreTickCallback or at the end of Simulate with
\* the queue disabled, or in the destructor) the dead list is empty; and every
\* destroyed object is deleted in the end.
C27_DestroyedDeletedOnce ==
    /\ [](\A object \in DOMAIN physicsObjects : physicsObjects[object].deleted <= 1)
    /\ [][ /\ \A object \in DestroyedBy(physicsObjects, physicsObjects') :
                  (~env.m_InSimulation /\ ~env.m_QueueDeleteObject)
                      => physicsObjects'[object].deleted = 1
           /\ (callbacks'.simulateReturned /\ ~simulate'.queueWhenCalled)
                  => \A waiting \in Elements(simulate'.deadWhenCalled) :
                         physicsObjects'[waiting].deleted = 1
           /\ (/\ callbacks'.op = "PreTickCallback" \/ callbacks'.simulateReturned
               /\ ~env'.m_QueueDeleteObject)
                  => env'.m_DeadObjects = <<>>
           /\ callbacks'.op = "~CPhysicsEnvironment" => env'.m_DeadObjects = <<>> ]_vars
    /\ \A object \in 1..MaxObjects : WasDestroyed(object) ~> WasDeleted(object)

\* C27 witness: an object destroyed while the queue was enabled has been
\* deleted by a call of Simulate made with the queue disabled, which has
\* returned and left the dead list empty.
C27_Witness ==
    /\ callbacks.simulateReturned
    /\ ~simulate.queueWhenCalled
    /\ simulate.deadWhenCalled # <<>>
    /\ env.m_DeadObjects = <<>>
    /\ \A waiting \in Elements(simulate.deadWhenCalled) :
           /\ physicsObjects[waiting].destroyed = 1
           /\ physicsObjects[waiting].deleted = 1

(***************************************************************************)
(* Trigger touches: triggers and other objects are created and destroyed,  *)
(* each step hands CheckTriggerTouches up to two manifolds between the     *)
(* objects in the world, with no contact, a penetrating contact (-0.01), a *)
(* near contact (0.05) or a far one (0.2), and NotifyTriggerRemoved is     *)
(* called for triggers.                                                    *)
(***************************************************************************)
ContactLists == {<<>>, <<-1>>, <<5>>, <<20>>, <<20, -1>>}

\* the objects whose rigid body is in the dynamics world
InWorld == {object \in DOMAIN physicsObjects : physicsObjects[object].deleted = 0}

\* btPersistentManifold: its two bodies and the distances of its contacts
Manifolds ==
    {manifold \in [body0 : InWorld, body1 : InWorld, contacts : ContactLists] :
        manifold.body0 # manifold.body1}

\* the manifolds the dispatcher may hold at the end of a step
ManifoldLists ==
    {<<>>} \cup {<<manifold>> : manifold \in Manifolds}
           \cup {<<first, second>> : first \in Manifolds, second \in Manifolds}

NextTrigger ==
    \/ \E isStatic \in BOOLEAN, isTrigger \in BOOLEAN :
           CreatePolyObject(isStatic, isTrigger, FALSE)
    \/ \E pObject \in 1..MaxObjects : DestroyObjectCall(pObject)
    \/ Simulate(AsFloat(DEFAULT_TICK_INTERVAL))
    \/ PreTickCallback
    \/ \E manifolds \in ManifoldLists : TickCallback(manifolds)
    \/ \E trigger \in 1..MaxObjects : TriggerRemoved(trigger)

SpecTrigger == InitEnvironment /\ [][NextTrigger]_vars

\* the trigger events of a pair among the events a step fired
EventsOfPair(fired, pair) ==
    SelectSeq(fired, LAMBDA fire : fire.trigger = pair[1] /\ fire.object = pair[2])

\* the events from index on alternate, the first being the other one than
\* `before` (ObjectEnterTrigger when there was none)
RECURSIVE Alternate(_, _, _)
Alternate(before, events, index) ==
    IF index > Len(events) THEN TRUE
    ELSE /\ events[index].event = (IF before = "ObjectEnterTrigger"
                                   THEN "ObjectLeaveTrigger" ELSE "ObjectEnterTrigger")
         /\ Alternate(events[index].event, events, index + 1)

NextActive ==
    \/ \E isStatic \in BOOLEAN, asleep \in BOOLEAN : CreatePolyObject(isStatic, FALSE, asleep)
    \/ \E object \in 1..MaxObjects : SetActivationState(object)
    \/ \E pObject \in 1..MaxObjects : DestroyObjectCall(pObject)
    \/ \E deltaTime \in FrameTimes : Simulate(deltaTime)
    \/ PreTickCallback
    \/ TickCallback(NoManifolds)

SpecActive == InitEnvironment /\ [][NextActive]_vars

\* how often the event was fired for the object
EventCount(fired, event, object) ==
    Len(SelectSeq(fired, LAMBDA fire : fire.event = event /\ fire.object = object))

\* the object is in the non-static list, its recorded sleep state is
\* wasAsleep and its body's state is the opposite
SleepStateChanged(e, objects, object, wasAsleep) ==
    /\ Find(e.m_NonStaticObjects, object, 1) > 0
    /\ objects[object].m_WasAsleep = wasAsleep
    /\ objects[object].asleep # wasAsleep

ClockTimes ==
    {FloatZero,
     btScalar(TRUE, 16106127, -30),
     FloatOne,
     AsFloat(DEFAULT_TICK_INTERVAL),
     btScalar(FALSE, 16106126, -30),
     btScalar(FALSE, 13421773, -26)}

Timesteps == {FloatZero, AsFloat(2 * DEFAULT_TICK_INTERVAL)}

NextClock ==
    \/ \E deltaTime \in ClockTimes : Simulate(deltaTime)
    \/ PreTickCallback
    \/ TickCallback(NoManifolds)
    \/ \E timestep \in Timesteps : SetSimulationTimestep(timestep)
    \/ ResetSimulationClock

SpecClock == InitEnvironment /\ [][NextClock]_vars

\* C30: when Simulate(dt) with 0 < dt < 1 returns it has run exactly
\* floor(accumulated time / timestep) steps, the accumulated time being the
\* time since the last step before the call plus min(dt, 0.1), and it leaves
\* 0 <= time since the last step < timestep; Simulate(dt) with dt <= 0 or
\* dt >= 1 runs no step and leaves the clock unchanged; and GetSimulationTime
\* decreases in no step but ResetSimulationClock.
C30_SimulationClock ==
    [][ /\ callbacks'.simulateReturned
            => IF ValidDeltaTime(simulate'.deltaTime)
               THEN /\ simulate'.psi
                           = (simulate'.sinceBefore
                                  + InUnits(ClampDeltaTime(simulate'.deltaTime)))
                                 \div env'.m_SimulationTimeStep
                    /\ 0 <= env'.m_TimeSinceLastPSI
                    /\ env'.m_TimeSinceLastPSI < env'.m_SimulationTimeStep
               ELSE /\ simulate'.psi = 0
                    /\ env'.m_TimeSinceLastPSI = env.m_TimeSinceLastPSI
                    /\ env'.m_LastPSITime = env.m_LastPSITime
        /\ callbacks'.op # "ResetSimulationClock"
            => GetSimulationTime(env') >= GetSimulationTime(env) ]_vars

====
